---------------------------- MODULE Spec2Model ----------------------------
(*
 * Vulkan renderer of dxx-rebirth-android: initialization, swapchain and frame
 * scheduler (vk_init.cpp), immediate-mode draw emitter (vk_renderer.cpp),
 * texture manager (vk_texture.cpp) and the gr_* entry points (vk_gr.cpp).
 *
 * The render thread is one sequential process; its position is `pc`.
 * The GPU is a second process: it executes submitted command buffers in queue
 * order and present requests in their order, each once the semaphore it waits
 * on is signaled.
 * gr_flip is the only caller of vk_begin_frame / vk_end_frame / vk_present,
 * so these run at the positions gr_flip reaches them; gr_init, draws, texture
 * calls, gr_set_mode and gr_close are issued by the host between two gr_flip
 * calls.
 *)
EXTENDS Integers, Sequences, FiniteSets, TLC

VARIABLES
    g_vk,        \* struct vk_state: handles and the frame / draw / texture fields
    fence,       \* per slot: VkFence signaled?
    cmdbuf,      \* per slot: draws recorded in frame.cmd since its last reset
    ring,        \* per slot: regions of the vertex ring buffer written by memcpy,
                 \*   each with the vertices copied into it
    queue,       \* submissions handed to the graphics queue, not yet complete
    desc_pool,   \* descriptor sets currently allocated from g_vk.descriptor_pool
    textures,    \* heap vk_texture records, by handle
    tex_alloc,   \* handles returned by vk_create_texture so far
    pc,          \* position of the render thread
    cmd,         \* per slot: lifecycle state of frame.cmd and the framebuffer
                 \*   its render pass was begun on
    image_available,   \* per slot: semaphore signaled by vkAcquireNextImageKHR?
    render_finished,   \* per slot: semaphore signaled by the submission?
    presents,    \* present requests handed to the queue, not yet executed
    gpu_objects, \* GPU objects the context has created and not destroyed
    calls,       \* the creation steps / destroy calls made by the last
                 \*   vk_init, vk_recreate_swapchain or vk_shutdown
    surface_extent,    \* caps.currentExtent.width the surface reports
    gr_installed,      \* static int gr_installed
    g_pRebirthSDLMainWindow,  \* the SDL window, 0 until gr_init creates it
    tex_objects, \* driver objects the texture manager created for the callers'
                 \*   textures and has not released
    tex_calls,   \* the driver calls of the last vk_create_texture or
                 \*   vk_destroy_texture
    tex_image    \* per texture handle: layout and sampled pixels of its VkImage

(* The touch overlay (src/common/arch/sdl/touch.cpp) *)
VARIABLES
    left_stick,          \* static virtual_stick left_stick
    right_stick,         \* static virtual_stick right_stick
    buttons,             \* per button: pressed and finger_id of its touch_zone
    overlay_enabled,     \* static bool overlay_enabled
    overlay_initialized, \* static bool overlay_initialized
    controls_visible,    \* static bool controls_visible
    aspect_ratio,        \* width / height, as the pair <<width, height>>
    fingers,             \* per finger id: where the finger rests on the screen
    keys                 \* scancodes held according to the injected key events

vars == <<g_vk, fence, cmdbuf, ring, queue, desc_pool, textures, tex_alloc, pc,
          cmd, image_available, render_finished, presents, gpu_objects, calls,
          surface_extent, gr_installed, g_pRebirthSDLMainWindow,
          tex_objects, tex_calls, tex_image,
          left_stick, right_stick, buttons, overlay_enabled, overlay_initialized,
          controls_visible, aspect_ratio, fingers, keys>>

(* the renderer and its driver *)
renderVars == <<g_vk, fence, cmdbuf, ring, queue, desc_pool, textures, tex_alloc, pc,
                cmd, image_available, render_finished, presents, gpu_objects, calls,
                surface_extent, gr_installed, g_pRebirthSDLMainWindow,
                tex_objects, tex_calls, tex_image>>

(* the touch overlay, the fingers on the screen and the injected key events *)
touchVars == <<left_stick, right_stick, buttons, overlay_enabled, overlay_initialized,
               controls_visible, aspect_ratio, fingers, keys>>

(* the driver side of the callers' textures *)
texVars == <<tex_objects, tex_calls, tex_image>>

(* what the draw, texture and frame paths never touch *)
hostVars == <<gpu_objects, calls, surface_extent, gr_installed, g_pRebirthSDLMainWindow>>

(* semaphores and present requests *)
syncVars == <<image_available, render_finished, presents>>

-----------------------------------------------------------------------------
(* Program constants *)

VK_MAX_FRAMES_IN_FLIGHT == 2
VK_VERTEX_RING_SIZE == 4 * 1024 * 1024
sizeof_vk_vertex == 36
VK_NULL_HANDLE == 0

VK_PIPE_TEXTURED_3D == 0
VK_PIPE_FLAT_3D == 1
VK_PIPE_LINE_3D == 2
VK_PIPE_TEXTURED_2D == 3
VK_PIPE_FLAT_2D == 4
VK_PIPE_LINE_2D == 5

VK_PIPE_COUNT == 6

VK_BLEND_NORMAL == 0
VK_BLEND_ADDITIVE_A == 1
VK_BLEND_ADDITIVE_C == 2
VK_BLEND_COUNT == 3

\* 0xFFFFFFFF, "the surface does not dictate its extent", as a 32-bit value
UINT32_MAX == -1

(* Bounds of the model *)

MaxFanCount == 4      \* fans of 0..MaxFanCount vertices
MaxDraws == 2         \* triangle-list draws recorded per frame
MaxFanDraws == 1      \* fan and line draws recorded per frame
MaxTextures == 1      \* vk_create_texture calls by the host
MaxSwapchains == 2    \* swapchain generations (stale-surface reports are capped)
MaxImages == 3        \* swapchain images the presentation engine can hand out
MaxSize == 2          \* window widths 1..MaxSize
MaxTexHeight == 3     \* texture heights 1..MaxTexHeight

Slots == 0 .. (VK_MAX_FRAMES_IN_FLIGHT - 1)
TexIds == 1 .. MaxTextures
DescIds == 1 .. (MaxTextures + 1)
Sizes == 1 .. MaxSize

\* largest vertex count that fits an empty ring buffer
FitCount == VK_VERTEX_RING_SIZE \div sizeof_vk_vertex

BigCounts == {0, FitCount \div 2, FitCount, FitCount + 1}
TriCounts == {0, 3}
LineCounts == {0, 2}
FanCounts == 0 .. MaxFanCount
AcquireResults == {"VK_SUCCESS", "VK_ERROR_OUT_OF_DATE_KHR", "VK_ERROR_SURFACE_LOST_KHR"}
SubmitResults == {"VK_SUCCESS", "VK_ERROR_OUT_OF_DEVICE_MEMORY"}
PresentResults == {"VK_SUCCESS", "VK_ERROR_OUT_OF_DATE_KHR"}

-----------------------------------------------------------------------------
(* float[16] matrices, column-major.  A number is an exact fraction <<n, d>>
   with d > 0 in lowest terms; rounding of float is not modelled. *)

RECURSIVE GCD(_, _)
GCD(a, b) == IF b = 0 THEN a ELSE GCD(b, a % b)

Abs(n) == IF n < 0 THEN -n ELSE n

Frac(n, d) ==
    LET g == GCD(Abs(n), Abs(d))
        sgn == IF d < 0 THEN -1 ELSE 1
    IN  <<(sgn * n) \div g, (sgn * d) \div g>>

Num(n) == <<n, 1>>

FracAdd(x, y) == Frac(x[1] * y[2] + y[1] * x[2], x[2] * y[2])
FracMul(x, y) == Frac(x[1] * y[1], x[2] * y[2])
FracSub(x, y) == FracAdd(x, <<-y[1], y[2]>>)
FracDiv(x, y) == Frac(x[1] * y[2], x[2] * y[1])

(* memset(m, 0, 16 * sizeof(float)) *)
ZeroMatrix == [i \in 0 .. 15 |-> Num(0)]

(* vk_mat4_identity *)
vk_mat4_identity == [ZeroMatrix EXCEPT ![0] = Num(1), ![5] = Num(1), ![10] = Num(1), ![15] = Num(1)]

(* vk_mat4_ortho(m, l, r, b, t, n, f) *)
vk_mat4_ortho(l, r, b, t, n, f) ==
    [ZeroMatrix EXCEPT
        ![0] = FracDiv(Num(2), FracSub(r, l)),
        ![5] = FracDiv(Num(2), FracSub(t, b)),
        ![10] = FracDiv(Num(-2), FracSub(f, n)),
        ![12] = FracDiv(FracSub(Num(0), FracAdd(r, l)), FracSub(r, l)),
        ![13] = FracDiv(FracSub(Num(0), FracAdd(t, b)), FracSub(t, b)),
        ![14] = FracDiv(FracSub(Num(0), FracAdd(f, n)), FracSub(f, n)),
        ![15] = Num(1)]

(* vk_mat4_perspective(m, fovy_deg, aspect, near_val, far_val) for
   fovy_deg = 90, where f = 1 / tan(45 degrees) = 1 *)
vk_mat4_perspective(aspect, near_val, far_val) ==
    LET f == Num(1) IN
    [ZeroMatrix EXCEPT
        ![0] = FracDiv(f, aspect),
        ![5] = f,
        ![10] = FracDiv(FracAdd(far_val, near_val), FracSub(near_val, far_val)),
        ![11] = Num(-1),
        ![14] = FracDiv(FracMul(FracMul(Num(2), far_val), near_val),
                        FracSub(near_val, far_val))]

(* the inner loop of vk_mat4_multiply: tmp[j * 4 + i] += a[k * 4 + i] * b[j * 4 + k] *)
RECURSIVE dot_loop(_, _, _, _, _, _)
dot_loop(acc, a, b, i, j, k) ==
    IF k < 4
    THEN dot_loop(FracAdd(acc, FracMul(a[k * 4 + i], b[j * 4 + k])), a, b, i, j, k + 1)
    ELSE acc

(* vk_mat4_multiply(out, a, b) *)
vk_mat4_multiply(a, b) ==
    [idx \in 0 .. 15 |-> dot_loop(Num(0), a, b, idx % 4, idx \div 4, 0)]

(* faulty variant: the combined transform is left as it was *)
UpdatedMvp_stale(g) == g

(* vk_update_mvp *)
UpdatedMvp(g) ==
    [g EXCEPT !.mvp_matrix = vk_mat4_multiply(g.projection_matrix, g.modelview_matrix)]

-----------------------------------------------------------------------------
(* struct vk_texture, zero state (`*tex = {}`) *)
ZeroTexture ==
    [image |-> VK_NULL_HANDLE, view |-> VK_NULL_HANDLE, sampler |-> VK_NULL_HANDLE,
     descriptor_set |-> VK_NULL_HANDLE, valid |-> FALSE,
     w |-> 0, h |-> 0, tw |-> 0, th |-> 0]

(* a 1 x 1 texture as vk_create_texture returns it, with descriptor set d *)
LiveTexture(d) ==
    [image |-> 1, view |-> 1, sampler |-> 1, descriptor_set |-> d, valid |-> TRUE,
     w |-> 1, h |-> 1, tw |-> 1, th |-> 1]

(* struct vk_frame_data, default-initialized *)
ZeroFrame ==
    [cmd |-> VK_NULL_HANDLE, image_available |-> VK_NULL_HANDLE,
     render_finished |-> VK_NULL_HANDLE, fence |-> VK_NULL_HANDLE,
     vertex_buffer |-> VK_NULL_HANDLE, vertex_offset |-> 0]

(* `g_vk = {}` *)
ZeroState ==
    [initialized |-> FALSE, frame_started |-> FALSE, in_render_pass |-> FALSE,
     current_frame |-> 0, bound_texture |-> VK_NULL_HANDLE,
     white_texture |-> ZeroTexture, current_blend |-> VK_BLEND_NORMAL,
     swapchain |-> VK_NULL_HANDLE, descriptor_pool |-> VK_NULL_HANDLE,
     frames |-> [f \in Slots |-> ZeroFrame],
     instance |-> VK_NULL_HANDLE, surface |-> VK_NULL_HANDLE,
     physical_device |-> VK_NULL_HANDLE, device |-> VK_NULL_HANDLE,
     allocator |-> VK_NULL_HANDLE, swapchain_views |-> VK_NULL_HANDLE,
     swapchain_extent |-> 0, depth_image |-> VK_NULL_HANDLE,
     depth_view |-> VK_NULL_HANDLE, render_pass |-> VK_NULL_HANDLE,
     framebuffers |-> VK_NULL_HANDLE, command_pool |-> VK_NULL_HANDLE,
     descriptor_set_layout |-> VK_NULL_HANDLE, pipeline_layout |-> VK_NULL_HANDLE,
     pipelines |-> VK_NULL_HANDLE, screen_width |-> 0,
     is_3d_mode |-> FALSE, projection_matrix |-> ZeroMatrix,
     modelview_matrix |-> ZeroMatrix, mvp_matrix |-> ZeroMatrix]

Frame == g_vk.frames[g_vk.current_frame]

InFlight(f) == \E i \in 1 .. Len(queue) : queue[i].slot = f

(* no VkImage behind a texture handle *)
NoImage == [layout |-> "none", pixels |-> <<>>]

(* a command buffer not recording, and the semaphores with no signal *)
ZeroCmd == [state |-> "initial", framebuffer |-> VK_NULL_HANDLE]

-----------------------------------------------------------------------------
(* Touch overlay: constants and zero-initialized statics.  Screen coordinates
   are the normalized floats of SDL_TouchFingerEvent in hundredths: 0.07f is 7. *)

BTN_FIRE_SECONDARY == 0
BTN_FLARE == 1
BTN_BOMB == 2
BTN_BANK_LEFT == 3
BTN_BANK_RIGHT == 4
BTN_AUTOMAP == 5
BTN_ESC == 6
BTN_ACCEPT == 7
BTN_COUNT == 8

ButtonIds == 0 .. BTN_COUNT - 1
(* the SDL_FingerID values of the fingers that touch the screen: two thumbs *)
FingerIds == {0, 1}

(* finger_id of a touch zone no finger has touched *)
NoFinger == -1

(* static constexpr std::array<SDL_Scancode, BTN_COUNT> button_scancodes *)
button_scancodes ==
    [i \in ButtonIds |->
        <<"SPACE", "F", "B", "Q", "E", "TAB", "ESCAPE", "RETURN">>[i + 1]]

SDL_SCANCODE_LCTRL == "LCTRL"

(* a virtual_stick of all zeroes: left_stick = {} *)
ZeroStick ==
    [center_x |-> 0, center_y |-> 0, active |-> FALSE, firing |-> FALSE,
     finger_id |-> 0, key_up |-> FALSE, key_down |-> FALSE, key_left |-> FALSE,
     key_right |-> FALSE, sc_up |-> "UNKNOWN", sc_down |-> "UNKNOWN",
     sc_left |-> "UNKNOWN", sc_right |-> "UNKNOWN"]

(* the radius both sticks get in touch_overlay_init *)
StickRadius == 12

(* constexpr float threshold = 0.3f, as a fraction *)
threshold == [num |-> 3, den |-> 10]

(* the x coordinate that separates the left half from the right half *)
HalfScreen == 50

Zone(x, y, w, h) == [x |-> x, y |-> y, w |-> w, h |-> h]

(* the rectangles touch_overlay_init gives the buttons *)
button_zone ==
    [i \in ButtonIds |->
        CASE i = BTN_ESC            -> Zone(2, 2, 7, 6)
          [] i = BTN_ACCEPT         -> Zone(10, 2, 7, 6)
          [] i = BTN_FLARE          -> Zone(36, 2, 8, 6)
          [] i = BTN_BOMB           -> Zone(46, 2, 8, 6)
          [] i = BTN_AUTOMAP        -> Zone(56, 2, 8, 6)
          [] i = BTN_FIRE_SECONDARY -> Zone(83, 2, 15, 6)
          [] i = BTN_BANK_LEFT      -> Zone(2, 12, 7, 8)
          [] i = BTN_BANK_RIGHT     -> Zone(91, 12, 7, 8)]

(* the rectangle of the toggle button *)
toggle_button == Zone(20, 2, 6, 5)

(* a finger that is not on the screen *)
Lifted == [x |-> -1, y |-> -1]

-----------------------------------------------------------------------------
(* State at program start: g_vk zero-initialized, nothing created *)
Init ==
    /\ g_vk = ZeroState
    /\ desc_pool = {}
    /\ fence = [f \in Slots |-> FALSE]
    /\ cmdbuf = [f \in Slots |-> <<>>]
    /\ ring = [f \in Slots |-> <<>>]
    /\ queue = <<>>
    /\ textures = [t \in TexIds |-> ZeroTexture]
    /\ tex_alloc = {}
    /\ pc = "host"
    /\ cmd = [f \in Slots |-> ZeroCmd]
    /\ image_available = [f \in Slots |-> FALSE]
    /\ render_finished = [f \in Slots |-> FALSE]
    /\ presents = <<>>
    /\ gpu_objects = {}
    /\ calls = <<>>
    /\ surface_extent = UINT32_MAX
    /\ gr_installed = 0
    /\ g_pRebirthSDLMainWindow = 0
    /\ tex_objects = {}
    /\ tex_calls = <<>>
    /\ tex_image = [t \in TexIds |-> NoImage]
    /\ left_stick = ZeroStick
    /\ right_stick = ZeroStick
    /\ buttons = [i \in ButtonIds |-> [pressed |-> FALSE, finger_id |-> 0]]
    /\ overlay_enabled = TRUE
    /\ overlay_initialized = FALSE
    /\ controls_visible = TRUE
    /\ aspect_ratio = <<0, 0>>
    /\ fingers = [fid \in FingerIds |-> Lifted]
    /\ keys = {}

-----------------------------------------------------------------------------
(* GPU side *)

(* faulty variant: the fence wait returns at once *)
vkWaitForFences_skipped(f) == TRUE

(* vkWaitForFences(frame.fence, UINT64_MAX) returns once the fence is signaled *)
vkWaitForFences(f) == fence[f]

(* vkDeviceWaitIdle: every queued submission completes and signals its fence *)
IdleFences == [f \in Slots |-> fence[f] \/ InFlight(f)]

(* vkDeviceWaitIdle: a completed submission has consumed its wait semaphore *)
IdleImageAvailable ==
    [f \in Slots |-> IF InFlight(f) THEN FALSE ELSE image_available[f]]

(* a one-time-submit command buffer that has completed: invalid until reset,
   referencing nothing *)
InvalidCmd == [state |-> "invalid", framebuffer |-> VK_NULL_HANDLE]

(* vkDeviceWaitIdle: every pending command buffer has completed *)
IdleCmd ==
    [f \in Slots |-> IF cmd[f].state = "pending"
                     THEN InvalidCmd
                     ELSE cmd[f]]

(* the GPU executes the oldest submission: it consumes image_available and
   signals render_finished and the fence passed to vkQueueSubmit.  The work
   starts once the wait semaphore is signaled; waiting on a semaphore that is
   unsignaled with no signal pending is undefined in Vulkan (the work may run
   or hang), so the step is possible in that case too. *)
GpuComplete ==
    /\ queue # <<>>
    /\ fence' = [fence EXCEPT ![Head(queue).fence] = TRUE]
    /\ image_available' = [image_available EXCEPT ![Head(queue).slot] = FALSE]
    /\ render_finished' = [render_finished EXCEPT ![Head(queue).slot] = TRUE]
    /\ cmd' = [cmd EXCEPT ![Head(queue).slot] = InvalidCmd]
    /\ queue' = Tail(queue)
    /\ UNCHANGED <<g_vk, cmdbuf, ring, desc_pool, textures, tex_alloc, texVars, pc, presents>>
    /\ UNCHANGED hostVars
    /\ UNCHANGED touchVars

(* the two GPU steps of one frame taken together: the submission completes and
   the present request that waits on its render_finished is executed at once *)
GpuCompleteAndPresent ==
    /\ queue # <<>>
    /\ presents # <<>>
    /\ Head(presents).slot = Head(queue).slot
    /\ fence' = [fence EXCEPT ![Head(queue).fence] = TRUE]
    /\ image_available' = [image_available EXCEPT ![Head(queue).slot] = FALSE]
    /\ cmd' = [cmd EXCEPT ![Head(queue).slot] = InvalidCmd]
    /\ queue' = Tail(queue)
    /\ presents' = Tail(presents)
    /\ UNCHANGED <<g_vk, cmdbuf, ring, desc_pool, textures, tex_alloc, texVars, pc, render_finished>>
    /\ UNCHANGED hostVars
    /\ UNCHANGED touchVars

(* A present request is executed once its wait semaphore is signaled; if no
   submission that would signal it is queued, the wait is undefined: the
   request may be executed or hang. *)
PresentMayRun(p) == ~p.wait_semaphore \/ render_finished[p.slot] \/ ~InFlight(p.slot)

(* the queue executes the oldest present request, consuming render_finished *)
PresentExecute ==
    /\ presents # <<>>
    /\ PresentMayRun(Head(presents))
    /\ render_finished' = [render_finished EXCEPT ![Head(presents).slot] = FALSE]
    /\ presents' = Tail(presents)
    /\ UNCHANGED <<g_vk, fence, cmdbuf, ring, queue, desc_pool, textures, tex_alloc, texVars,
                   pc, cmd, image_available>>
    /\ UNCHANGED hostVars
    /\ UNCHANGED touchVars

(* the window surface changes its size: caps.currentExtent *)
SurfaceResized(e) ==
    /\ pc = "host"
    /\ e # surface_extent
    /\ surface_extent' = e
    /\ UNCHANGED <<g_vk, fence, cmdbuf, ring, queue, desc_pool, textures, tex_alloc, texVars,
                   pc, cmd, gpu_objects, calls, gr_installed, g_pRebirthSDLMainWindow>>
    /\ UNCHANGED syncVars
    /\ UNCHANGED touchVars

-----------------------------------------------------------------------------
(* vk_init.cpp: initialization *)

Step(name) == [op |-> "step", obj |-> name]
Create(kind) == [op |-> "create", obj |-> kind]
Destroy(kind) == [op |-> "destroy", obj |-> kind]
WaitIdle == [op |-> "wait", obj |-> "vkDeviceWaitIdle"]

(* `if (handle) destroy(handle);` *)
IfHandle(h, call) == IF h # VK_NULL_HANDLE THEN <<call>> ELSE <<>>

(* the objects a sequence of calls destroys; the command pool takes the
   command buffers allocated from it along, vk_destroy_pipelines the layout *)
Destroyed(cs) ==
    LET named == {cs[i].obj : i \in {j \in 1 .. Len(cs) : cs[j].op = "destroy"}}
    IN  named \cup (IF "command_pool" \in named THEN {"command_buffer"} ELSE {})
              \cup (IF "pipelines" \in named THEN {"pipeline_layout"} ELSE {})

(* faulty variant: the descriptor pool is created before the command pool *)
InitOrder_poolsSwapped ==
    <<"vk_create_instance", "SDL_Vulkan_CreateSurface", "vk_select_physical_device",
      "vk_create_device", "vk_create_allocator", "vk_create_swapchain",
      "vk_create_depth_buffer", "vk_create_render_pass", "vk_create_framebuffers",
      "vk_create_descriptor_pool", "vk_create_command_pool",
      "vk_create_per_frame_resources", "vk_create_pipelines",
      "vk_create_white_texture">>

(* the calls of vk_init, in program order *)
InitOrder ==
    <<"vk_create_instance", "SDL_Vulkan_CreateSurface", "vk_select_physical_device",
      "vk_create_device", "vk_create_allocator", "vk_create_swapchain",
      "vk_create_depth_buffer", "vk_create_render_pass", "vk_create_framebuffers",
      "vk_create_command_pool", "vk_create_descriptor_pool",
      "vk_create_per_frame_resources", "vk_create_pipelines",
      "vk_create_white_texture">>

InitSteps == {InitOrder[i] : i \in 1 .. Len(InitOrder)}

(* g_vk.swapchain_extent as vk_create_swapchain sets it *)
ChosenExtent(w) == IF surface_extent # UINT32_MAX THEN surface_extent ELSE w

(* vk_create_swapchain(w, h) on context g: a new swapchain with its image views;
   handles are numbered by swapchain generation *)
vk_create_swapchain(g, w) ==
    [g EXCEPT !.swapchain_extent = ChosenExtent(w),
              !.swapchain = g.swapchain + 1,
              !.swapchain_views = g.swapchain + 1]

(* vk_create_depth_buffer on context g *)
vk_create_depth_buffer(g) ==
    [g EXCEPT !.depth_image = g.swapchain, !.depth_view = g.swapchain]

(* vk_create_framebuffers on context g: one framebuffer per swapchain view *)
vk_create_framebuffers(g) == [g EXCEPT !.framebuffers = g.swapchain_views]

(* struct vk_frame_data as vk_create_per_frame_resources leaves it *)
CreatedFrame ==
    [cmd |-> 1, image_available |-> 1, render_finished |-> 1, fence |-> 1,
     vertex_buffer |-> 1, vertex_offset |-> 0]

(* vk_create_pipelines: the pipeline layout and the pipeline variants *)
vk_create_pipelines(g) == [g EXCEPT !.pipeline_layout = 1, !.pipelines = 1]

(* vkAllocateDescriptorSets: a handle not in use; the pool hands out the lowest,
   so a freed handle is reused by the next allocation *)
AllocateDescriptorSet ==
    CHOOSE d \in DescIds \ desc_pool : \A e \in DescIds \ desc_pool : d <= e

(* the context after a successful step of vk_init *)
StepState(step, g) ==
    CASE step = "vk_create_instance" -> [g EXCEPT !.instance = 1]
      [] step = "SDL_Vulkan_CreateSurface" -> [g EXCEPT !.surface = 1]
      [] step = "vk_select_physical_device" -> [g EXCEPT !.physical_device = 1]
      [] step = "vk_create_device" -> [g EXCEPT !.device = 1]
      [] step = "vk_create_allocator" -> [g EXCEPT !.allocator = 1]
      [] step = "vk_create_swapchain" -> vk_create_swapchain(g, g.screen_width)
      [] step = "vk_create_depth_buffer" -> vk_create_depth_buffer(g)
      [] step = "vk_create_render_pass" -> [g EXCEPT !.render_pass = 1]
      [] step = "vk_create_framebuffers" -> vk_create_framebuffers(g)
      [] step = "vk_create_command_pool" -> [g EXCEPT !.command_pool = 1]
      [] step = "vk_create_descriptor_pool" ->
            [g EXCEPT !.descriptor_pool = 1, !.descriptor_set_layout = 1]
      [] step = "vk_create_per_frame_resources" ->
            [g EXCEPT !.frames = [f \in Slots |-> CreatedFrame]]
      [] step = "vk_create_pipelines" -> vk_create_pipelines(g)
      [] step = "vk_create_white_texture" ->
            [g EXCEPT !.white_texture = LiveTexture(AllocateDescriptorSet)]

(* the GPU objects a successful step of vk_init creates *)
StepObjects(step) ==
    CASE step = "vk_create_instance" -> {"instance"}
      [] step = "SDL_Vulkan_CreateSurface" -> {"surface"}
      [] step = "vk_select_physical_device" -> {}
      [] step = "vk_create_device" -> {"device"}
      [] step = "vk_create_allocator" -> {"allocator"}
      [] step = "vk_create_swapchain" -> {"swapchain", "swapchain_views"}
      [] step = "vk_create_depth_buffer" -> {"depth_image", "depth_view"}
      [] step = "vk_create_render_pass" -> {"render_pass"}
      [] step = "vk_create_framebuffers" -> {"framebuffers"}
      [] step = "vk_create_command_pool" -> {"command_pool"}
      [] step = "vk_create_descriptor_pool" -> {"descriptor_pool", "descriptor_set_layout"}
      [] step = "vk_create_per_frame_resources" ->
            {"command_buffer", "image_available", "render_finished", "fence",
             "vertex_buffer"}
      [] step = "vk_create_pipelines" -> {"pipeline_layout", "pipelines"}
      [] step = "vk_create_white_texture" -> {"white_texture"}

(* vk_init from its i-th call on: `if (!step()) return false;` for each call,
   then initialized = true.  `failing` is the step that fails, or "none"; a
   failing step fails at its first call into the driver, before it has
   created anything. *)
RECURSIVE init_from(_, _, _)
init_from(i, st, failing) ==
    IF i > Len(InitOrder)
    THEN [st EXCEPT !.g.projection_matrix = vk_mat4_identity,
                    !.g.modelview_matrix = vk_mat4_identity,
                    !.g.mvp_matrix = vk_mat4_identity,
                    !.g.initialized = TRUE, !.ok = TRUE]
    ELSE LET step == InitOrder[i]
             called == [st EXCEPT !.calls = Append(@, Step(step))]
         IN  IF step = failing
             THEN called
             ELSE init_from(i + 1,
                      [called EXCEPT !.g = StepState(step, @),
                                     !.objects = @ \cup StepObjects(step)],
                      failing)

(* vk_init(window, w, h) *)
vk_init(w, failing) ==
    LET run == init_from(1, [g |-> [g_vk EXCEPT !.screen_width = w],
                             objects |-> gpu_objects, calls |-> <<>>, ok |-> FALSE],
                         failing)
    IN  /\ g_vk' = run.g
        /\ gpu_objects' = run.objects
        /\ calls' = run.calls
        /\ fence' = IF run.g.frames[0].fence # VK_NULL_HANDLE
                    THEN [f \in Slots |-> TRUE]
                    ELSE fence
        /\ desc_pool' = IF run.g.white_texture.valid
                        THEN desc_pool \cup {run.g.white_texture.descriptor_set}
                        ELSE desc_pool

-----------------------------------------------------------------------------
(* vk_init.cpp: swapchain recreation and the frame lifecycle *)

(* the steps of vk_recreate_swapchain that can fail: `if (!step()) return false;` *)
RecreateSteps == {"vk_create_swapchain", "vk_create_depth_buffer", "vk_create_framebuffers"}

(* the calls of vk_recreate_swapchain, in program order; `failing` is the step
   that fails, at its first call into the driver, or "none" *)
RecreateCalls(failing) ==
    <<WaitIdle>>
    \o IfHandle(g_vk.framebuffers, Destroy("framebuffers"))
    \o IfHandle(g_vk.swapchain_views, Destroy("swapchain_views"))
    \o IfHandle(g_vk.depth_view, Destroy("depth_view"))
    \o IfHandle(g_vk.depth_image, Destroy("depth_image"))
    \o (IF failing = "vk_create_swapchain" THEN <<>>
        ELSE <<Create("swapchain")>>
             \o IfHandle(g_vk.swapchain, Destroy("swapchain"))
             \o <<Create("swapchain_views")>>
             \o (IF failing = "vk_create_depth_buffer" THEN <<>>
                 ELSE <<Create("depth_image"), Create("depth_view")>>
                      \o (IF failing = "vk_create_framebuffers" THEN <<>>
                          ELSE <<Create("framebuffers")>>)))

(* the objects a sequence of calls creates *)
CreatedBy(cs) == {cs[i].obj : i \in {j \in 1 .. Len(cs) : cs[j].op = "create"}}

(* g_vk.framebuffers.clear(); g_vk.swapchain_views.clear(); the depth handles
   are destroyed but not reset *)
ClearedState == [g_vk EXCEPT !.framebuffers = VK_NULL_HANDLE,
                             !.swapchain_views = VK_NULL_HANDLE]

(* faulty variant: the per-frame cursors are reset as well *)
RecreatedState_resetsCursors(w, failing) ==
    [vk_create_framebuffers(vk_create_depth_buffer(vk_create_swapchain(g_vk, w)))
        EXCEPT !.screen_width = w,
               !.frames = [f \in Slots |-> [@[f] EXCEPT !.vertex_offset = 0]]]

(* the context after vk_recreate_swapchain(w, h): a failed create call leaves
   its handle as it was, and vk_create_swapchain has set the extent before it
   calls vkCreateSwapchainKHR *)
RecreatedState(w, failing) ==
    CASE failing = "vk_create_swapchain" ->
            [ClearedState EXCEPT !.swapchain_extent = ChosenExtent(w)]
      [] failing = "vk_create_depth_buffer" ->
            vk_create_swapchain(ClearedState, w)
      [] failing = "vk_create_framebuffers" ->
            vk_create_depth_buffer(vk_create_swapchain(ClearedState, w))
      [] OTHER ->
            [vk_create_framebuffers(vk_create_depth_buffer(vk_create_swapchain(g_vk, w)))
                EXCEPT !.screen_width = w]

(* vk_recreate_swapchain: idle the device, then rebuild the swapchain *)
vk_recreate_swapchain(w, failing) ==
    /\ fence' = IdleFences
    /\ queue' = <<>>
    /\ image_available' = IdleImageAvailable
    /\ render_finished' = [f \in Slots |-> FALSE]
    /\ presents' = <<>>
    /\ cmd' = IdleCmd
    /\ g_vk' = RecreatedState(w, failing)
    /\ calls' = RecreateCalls(failing)
    /\ gpu_objects' = (gpu_objects \ Destroyed(RecreateCalls(failing)))
                         \cup CreatedBy(RecreateCalls(failing))

(* faulty variant: vkResetFences left out *)
ResetFence_omitted(f) == fence

(* what vk_begin_frame does to the fence after a successful acquire *)
ResetFence(f) == [fence EXCEPT ![f] = FALSE]

(* faulty variant: the cursor is not reset *)
BegunState_keepsCursor(f) ==
    [g_vk EXCEPT !.in_render_pass = TRUE,
                 !.frame_started = TRUE,
                 !.bound_texture = VK_NULL_HANDLE]

(* the CPU-side state vk_begin_frame leaves on success *)
BegunState(f) ==
    [g_vk EXCEPT !.in_render_pass = TRUE,
                 !.frame_started = TRUE,
                 !.frames[f].vertex_offset = 0,
                 !.bound_texture = VK_NULL_HANDLE]

(* faulty variant: gr_flip goes on after a failed vk_begin_frame *)
AfterBegin_ignoresResult(ret) == IF pc = "begin" THEN "end" ELSE "host"

(* where gr_flip continues after vk_begin_frame returned ret *)
AfterBegin(ret) == IF pc = "begin" /\ ret THEN "end" ELSE "host"

(* faulty variant: the acquire result is not looked at *)
AcquireStale_unchecked(result) == FALSE

(* result == VK_ERROR_OUT_OF_DATE_KHR *)
AcquireStale(result) == result = "VK_ERROR_OUT_OF_DATE_KHR"

(* vkAcquireNextImageKHR(UINT64_MAX) returns an image only when the presentation
   engine has one to give.
   The backlog of present requests is capped in the same way when it reports
   an error other than a stale surface. *)
AcquireReturns(result) ==
    result = "VK_ERROR_OUT_OF_DATE_KHR" \/ Len(presents) < MaxImages

(* a successful vkAcquireNextImageKHR has the signal of image_available
   pending; work that waits on it starts when the signal arrives, so the
   semaphore counts as signaled from here on *)
AcquiredSemaphore(f, result) ==
    IF result = "VK_SUCCESS"
    THEN [image_available EXCEPT ![f] = TRUE]
    ELSE image_available

(* vk_begin_frame, with `result` what vkAcquireNextImageKHR returns if reached *)
vk_begin_frame(result) ==
    /\ pc \in {"begin", "begin_next"}
    /\ IF ~g_vk.initialized
       THEN /\ pc' = AfterBegin(FALSE)
            /\ UNCHANGED <<g_vk, fence, cmdbuf, queue, cmd, calls>>
            /\ UNCHANGED syncVars
       ELSE LET f == g_vk.current_frame IN
            /\ vkWaitForFences(f)
            /\ AcquireReturns(result)
            /\ IF AcquireStale(result)
               THEN /\ g_vk.swapchain < MaxSwapchains
                    /\ vk_recreate_swapchain(g_vk.screen_width, "none")
                    /\ pc' = AfterBegin(FALSE)
                    /\ UNCHANGED cmdbuf
               ELSE /\ fence' = ResetFence(f)
                    /\ cmdbuf' = [cmdbuf EXCEPT ![f] = <<>>]
                    /\ cmd' = [cmd EXCEPT ![f] = [state |-> "recording",
                                                  framebuffer |-> g_vk.framebuffers]]
                    /\ image_available' = AcquiredSemaphore(f, result)
                    /\ g_vk' = BegunState(f)
                    /\ pc' = AfterBegin(TRUE)
                    /\ UNCHANGED <<queue, render_finished, presents, calls>>
    /\ UNCHANGED <<ring, desc_pool, textures, tex_alloc, texVars, gpu_objects, surface_extent,
                   gr_installed, g_pRebirthSDLMainWindow>>
    /\ UNCHANGED touchVars

(* faulty variant: frame_started is left set *)
EndedState_keepsFrameOpen == [g_vk EXCEPT !.in_render_pass = FALSE]

(* the context vk_end_frame leaves when a frame is open *)
EndedState == [g_vk EXCEPT !.in_render_pass = FALSE, !.frame_started = FALSE]

(* vk_end_frame: returns at once when no frame is open; otherwise
   vkCmdEndRenderPass if in a render pass, vkEndCommandBuffer, flags cleared *)
vk_end_frame ==
    IF ~g_vk.frame_started
    THEN UNCHANGED <<g_vk, cmd>>
    ELSE /\ g_vk' = EndedState
         /\ cmd' = [cmd EXCEPT ![g_vk.current_frame].state = "executable"]

(* gr_flip at its call of vk_end_frame *)
FlipEndFrame ==
    /\ pc = "end"
    /\ vk_end_frame
    /\ pc' = "present"
    /\ UNCHANGED <<fence, cmdbuf, ring, queue, desc_pool, textures, tex_alloc, texVars>>
    /\ UNCHANGED <<syncVars, hostVars>>
    /\ UNCHANGED touchVars

(* faulty variant: the submission names no wait semaphore *)
Submission_noWait(f) ==
    [slot |-> f, fence |-> f, wait_semaphore |-> FALSE,
     framebuffer |-> cmd[f].framebuffer]

(* the submission vk_present hands to vkQueueSubmit: the slot's command buffer,
   reading the slot's ring buffer, waiting on the slot's image_available,
   signaling the slot's render_finished and fence *)
Submission(f) ==
    [slot |-> f, fence |-> f, wait_semaphore |-> TRUE,
     framebuffer |-> cmd[f].framebuffer]

(* faulty variant: the present request names no wait semaphore *)
PresentRequest_noWait(f, result) ==
    [slot |-> f, wait_semaphore |-> FALSE, accepted |-> result = "VK_SUCCESS"]

(* the request vk_present hands to vkQueuePresentKHR, waiting on the slot's
   render_finished; a rejected request still executes its semaphore wait *)
PresentRequest(f, result) ==
    [slot |-> f, wait_semaphore |-> TRUE, accepted |-> result = "VK_SUCCESS"]

(* faulty variant: the frame index is not advanced *)
NextFrameIndex_stays(f) == f

(* (g_vk.current_frame + 1) % VK_MAX_FRAMES_IN_FLIGHT *)
NextFrameIndex(f) == (f + 1) % VK_MAX_FRAMES_IN_FLIGHT

(* vk_present; neither result is looked at *)
vk_present(submit_result, present_result) ==
    LET f == g_vk.current_frame IN
    /\ pc = "present"
    /\ IF submit_result = "VK_SUCCESS"
       THEN /\ queue' = Append(queue, Submission(f))
            /\ cmd' = [cmd EXCEPT ![f].state = "pending"]
       ELSE UNCHANGED <<queue, cmd>>
    /\ presents' = Append(presents, PresentRequest(f, present_result))
    /\ g_vk' = [g_vk EXCEPT !.current_frame = NextFrameIndex(@)]
    /\ pc' = "begin_next"
    /\ UNCHANGED <<fence, cmdbuf, ring, desc_pool, textures, tex_alloc, texVars,
                   image_available, render_finished>>
    /\ UNCHANGED hostVars
    /\ UNCHANGED touchVars

(* the destroy calls of vk_shutdown for one frame slot *)
FrameDestroyCalls(frame) ==
    IfHandle(frame.vertex_buffer, Destroy("vertex_buffer"))
    \o IfHandle(frame.fence, Destroy("fence"))
    \o IfHandle(frame.render_finished, Destroy("render_finished"))
    \o IfHandle(frame.image_available, Destroy("image_available"))

RECURSIVE AllFramesDestroyCalls(_)
AllFramesDestroyCalls(f) ==
    IF f >= VK_MAX_FRAMES_IN_FLIGHT
    THEN <<>>
    ELSE FrameDestroyCalls(g_vk.frames[f]) \o AllFramesDestroyCalls(f + 1)

(* vk_destroy_pipelines: destroys what vk_create_pipelines created, the
   pipeline variants and their layout; one call of vk_shutdown *)
vk_destroy_pipelines == <<Destroy("pipelines")>>

(* faulty variant: the device is destroyed before the allocator *)
ShutdownCalls_deviceBeforeAllocator ==
    <<WaitIdle, Destroy("white_texture")>>
    \o AllFramesDestroyCalls(0)
    \o vk_destroy_pipelines
    \o IfHandle(g_vk.descriptor_set_layout, Destroy("descriptor_set_layout"))
    \o IfHandle(g_vk.descriptor_pool, Destroy("descriptor_pool"))
    \o IfHandle(g_vk.command_pool, Destroy("command_pool"))
    \o IfHandle(g_vk.framebuffers, Destroy("framebuffers"))
    \o IfHandle(g_vk.render_pass, Destroy("render_pass"))
    \o IfHandle(g_vk.depth_view, Destroy("depth_view"))
    \o IfHandle(g_vk.depth_image, Destroy("depth_image"))
    \o IfHandle(g_vk.swapchain_views, Destroy("swapchain_views"))
    \o IfHandle(g_vk.swapchain, Destroy("swapchain"))
    \o IfHandle(g_vk.device, Destroy("device"))
    \o IfHandle(g_vk.allocator, Destroy("allocator"))
    \o IfHandle(g_vk.surface, Destroy("surface"))
    \o IfHandle(g_vk.instance, Destroy("instance"))

(* the calls of vk_shutdown on an initialized context, in program order *)
ShutdownCalls ==
    <<WaitIdle, Destroy("white_texture")>>
    \o AllFramesDestroyCalls(0)
    \o vk_destroy_pipelines
    \o IfHandle(g_vk.descriptor_set_layout, Destroy("descriptor_set_layout"))
    \o IfHandle(g_vk.descriptor_pool, Destroy("descriptor_pool"))
    \o IfHandle(g_vk.command_pool, Destroy("command_pool"))
    \o IfHandle(g_vk.framebuffers, Destroy("framebuffers"))
    \o IfHandle(g_vk.render_pass, Destroy("render_pass"))
    \o IfHandle(g_vk.depth_view, Destroy("depth_view"))
    \o IfHandle(g_vk.depth_image, Destroy("depth_image"))
    \o IfHandle(g_vk.swapchain_views, Destroy("swapchain_views"))
    \o IfHandle(g_vk.swapchain, Destroy("swapchain"))
    \o IfHandle(g_vk.allocator, Destroy("allocator"))
    \o IfHandle(g_vk.device, Destroy("device"))
    \o IfHandle(g_vk.surface, Destroy("surface"))
    \o IfHandle(g_vk.instance, Destroy("instance"))

(* faulty variant: the context is not reset *)
ShutdownState_keepsContext == [g_vk EXCEPT !.initialized = FALSE]

(* g_vk = {} *)
ShutdownState == ZeroState

(* vk_shutdown: idle, destroy everything, g_vk = {} *)
vk_shutdown ==
    IF ~g_vk.initialized
    THEN /\ UNCHANGED <<g_vk, fence, cmdbuf, ring, queue, desc_pool, cmd, gpu_objects,
                        calls, tex_objects>>
         /\ UNCHANGED syncVars
    ELSE /\ queue' = <<>>
         /\ presents' = <<>>
         /\ fence' = [f \in Slots |-> FALSE]
         /\ image_available' = [f \in Slots |-> FALSE]
         /\ render_finished' = [f \in Slots |-> FALSE]
         /\ cmd' = [f \in Slots |-> ZeroCmd]
         /\ cmdbuf' = [f \in Slots |-> <<>>]
         /\ ring' = [f \in Slots |-> <<>>]
         /\ desc_pool' = {}
         /\ calls' = ShutdownCalls
         /\ gpu_objects' = gpu_objects \ Destroyed(ShutdownCalls)
         /\ tex_objects' = {o \in tex_objects : o.kind # "descriptor_set"}
         /\ g_vk' = ShutdownState

-----------------------------------------------------------------------------
(* vk_gr.cpp *)

(* gr_init: returns -1 when already installed; otherwise creates the window
   (asserting there was none) and calls vk_init with the drawable size.
   gr_installed is set only when vk_init succeeded. *)
gr_init(w, failing) ==
    /\ pc = "host"
    /\ IF gr_installed = 1
       THEN UNCHANGED <<g_vk, gpu_objects, calls, fence, desc_pool, gr_installed,
                        g_pRebirthSDLMainWindow>>
       ELSE /\ g_pRebirthSDLMainWindow = 0
            /\ g_pRebirthSDLMainWindow' = 1
            /\ vk_init(w, failing)
            /\ gr_installed' = IF failing = "none" THEN 1 ELSE gr_installed
    /\ UNCHANGED <<cmdbuf, ring, queue, textures, tex_alloc, texVars, pc, cmd, surface_extent>>
    /\ UNCHANGED syncVars
    /\ UNCHANGED touchVars

(* gr_flip, up to its first call: begin a frame unless one is open *)
gr_flip ==
    /\ pc = "host"
    /\ pc' = IF ~g_vk.frame_started THEN "begin" ELSE "end"
    /\ UNCHANGED <<g_vk, fence, cmdbuf, ring, queue, desc_pool, textures, tex_alloc, texVars, cmd>>
    /\ UNCHANGED <<syncVars, hostVars>>
    /\ UNCHANGED touchVars

(* gr_set_mode: recreate the swapchain when the renderer is initialized *)
gr_set_mode(w, failing) ==
    /\ pc = "host"
    /\ IF g_vk.initialized
       THEN /\ g_vk.swapchain < MaxSwapchains
            /\ vk_recreate_swapchain(w, failing)
       ELSE /\ UNCHANGED <<g_vk, fence, queue, cmd, calls, gpu_objects>>
            /\ UNCHANGED syncVars
    /\ UNCHANGED <<cmdbuf, ring, desc_pool, textures, tex_alloc, texVars, pc, surface_extent,
                   gr_installed, g_pRebirthSDLMainWindow>>
    /\ UNCHANGED touchVars

gr_close ==
    /\ pc = "host"
    /\ vk_shutdown
    /\ UNCHANGED <<textures, tex_alloc, tex_calls, tex_image, pc, surface_extent,
                   gr_installed, g_pRebirthSDLMainWindow>>
    /\ UNCHANGED touchVars


-----------------------------------------------------------------------------
(* vk_renderer.cpp: the draw emitter.
   Vertex arrays: a fan handed to vk_draw_triangle_fan is <<1, .., count>>
   (its vertices by position); a caller array that vk_draw_triangles or
   vk_draw_lines passes on unchanged is the opaque value "verts".
   All byte counts of the bounded inputs stay far below 2^31, so no
   uint32_t / VkDeviceSize product wraps. *)

FanVerts(count) == [k \in 1 .. count |-> k]

(* faulty variant: the second vertex of each triangle is taken one position early *)
RECURSIVE fan_loop_offByOne(_, _, _, _)
fan_loop_offByOne(out, fan, i, tri_count) ==
    IF i < tri_count
    THEN fan_loop_offByOne([out EXCEPT ![i * 3 + 1] = fan[1],
                                       ![i * 3 + 2] = fan[i + 1],
                                       ![i * 3 + 3] = fan[i + 3]],
                           fan, i + 1, tri_count)
    ELSE out

(* the loop of fan_to_list, from iteration i on; out[i*3 + j] is out[i*3 + j + 1] here *)
RECURSIVE fan_loop(_, _, _, _)
fan_loop(out, fan, i, tri_count) ==
    IF i < tri_count
    THEN fan_loop([out EXCEPT ![i * 3 + 1] = fan[1],
                              ![i * 3 + 2] = fan[i + 2],
                              ![i * 3 + 3] = fan[i + 3]],
                  fan, i + 1, tri_count)
    ELSE out

(* fan_to_list: the vertices written to out and the returned count *)
fan_to_list(out, fan, fan_count) ==
    IF fan_count < 3
    THEN [out |-> out, count |-> 0]
    ELSE LET tri_count == fan_count - 2
         IN  [out |-> fan_loop(out, fan, 0, tri_count), count |-> tri_count * 3]

(* faulty variant: the byte count is taken for the fan's 4 vertices, not for
   the 6 of the list *)
NeededBytes_ofFan(count) == (count - 2) * sizeof_vk_vertex

(* const VkDeviceSize needed = count * sizeof(vk_vertex) *)
NeededBytes(count) == count * sizeof_vk_vertex

(* faulty variant: the ring-full test is left out *)
RingFull_never(vertex_offset, needed) == FALSE

(* faulty variant: the test forgets the cursor *)
RingFull_ignoresCursor(vertex_offset, needed) == needed > VK_VERTEX_RING_SIZE

(* the ring-full test of vk_emit_draw *)
RingFull(vertex_offset, needed) == vertex_offset + needed > VK_VERTEX_RING_SIZE

(* VkDescriptorSet ds = bound_texture ? bound_texture : white_texture.descriptor_set *)
BoundDescriptor ==
    IF g_vk.bound_texture # VK_NULL_HANDLE
    THEN g_vk.bound_texture
    ELSE g_vk.white_texture.descriptor_set

(* memcpy into the ring buffer at offset off: the bytes from off on are overwritten *)
RingWrite(r, off, needed, verts) ==
    Append(SelectSeq(r, LAMBDA w : w.off + w.len <= off),
           [off |-> off, len |-> needed, verts |-> verts])

(* faulty variant: every draw binds the vertex buffer at offset 0 *)
DrawCmd_offsetZero(pipe_id, count) ==
    [pipe |-> pipe_id, blend |-> g_vk.current_blend, ds |-> BoundDescriptor,
     offset |-> 0, count |-> count, mvp |-> g_vk.mvp_matrix]

(* the commands vk_emit_draw records for one draw *)
DrawCmd(pipe_id, count) ==
    [pipe |-> pipe_id, blend |-> g_vk.current_blend, ds |-> BoundDescriptor,
     offset |-> Frame.vertex_offset, count |-> count, mvp |-> g_vk.mvp_matrix]

(* faulty variant: the emitter does not look at frame_started *)
EmitSkipped_noFrameTest(count) == count = 0

(* if (!g_vk.frame_started || count == 0) return; *)
EmitSkipped(count) == ~g_vk.frame_started \/ count = 0

vk_emit_draw(pipe_id, verts, count) ==
    IF EmitSkipped(count)
    THEN UNCHANGED <<g_vk, cmdbuf, ring>>
    ELSE LET f == g_vk.current_frame
             needed == NeededBytes(count)
         IN  IF RingFull(Frame.vertex_offset, needed)
             THEN UNCHANGED <<g_vk, cmdbuf, ring>>
             ELSE /\ ring' = [ring EXCEPT ![f] = RingWrite(@, Frame.vertex_offset, needed, verts)]
                  /\ cmdbuf' = [cmdbuf EXCEPT ![f] = Append(@, DrawCmd(pipe_id, count))]
                  /\ g_vk' = [g_vk EXCEPT !.frames[f].vertex_offset = @ + needed]

(* pipeline selection of vk_draw_triangles *)
TrianglePipe(textured, is_3d) ==
    IF textured
    THEN (IF is_3d THEN VK_PIPE_TEXTURED_3D ELSE VK_PIPE_TEXTURED_2D)
    ELSE (IF is_3d THEN VK_PIPE_FLAT_3D ELSE VK_PIPE_FLAT_2D)

(* faulty variant: lines always take the 3D line pipeline *)
LinePipe_always3D(is_3d) == VK_PIPE_LINE_3D

(* pipeline selection of vk_draw_lines *)
LinePipe(is_3d) == IF is_3d THEN VK_PIPE_LINE_3D ELSE VK_PIPE_LINE_2D

(* the host may record another draw only while the frame's log has room *)
DrawRoom == Len(cmdbuf[g_vk.current_frame]) < MaxDraws

FanRoom == Len(cmdbuf[g_vk.current_frame]) < MaxFanDraws

vk_draw_triangles(verts, count, textured, is_3d) ==
    vk_emit_draw(TrianglePipe(textured, is_3d), verts, count)

vk_draw_triangle_fan(verts, count, textured, is_3d) ==
    IF count < 3
    THEN UNCHANGED <<g_vk, cmdbuf, ring>>
    ELSE LET max_tris == (count - 2) * 3
             list_verts == [k \in 1 .. max_tris |-> 0]
             list == fan_to_list(list_verts, verts, count)
         IN  vk_draw_triangles(list.out, list.count, textured, is_3d)

vk_draw_lines(verts, count, is_3d) ==
    vk_emit_draw(LinePipe(is_3d), verts, count)

DrawTriangles(count, textured, is_3d) ==
    /\ pc = "host"
    /\ DrawRoom
    /\ vk_draw_triangles("verts", count, textured, is_3d)
    /\ UNCHANGED <<fence, queue, desc_pool, textures, tex_alloc, texVars, pc, cmd>>
    /\ UNCHANGED <<syncVars, hostVars>>
    /\ UNCHANGED touchVars

DrawTriangleFan(count, textured, is_3d) ==
    /\ pc = "host"
    /\ FanRoom
    /\ vk_draw_triangle_fan(FanVerts(count), count, textured, is_3d)
    /\ UNCHANGED <<fence, queue, desc_pool, textures, tex_alloc, texVars, pc, cmd>>
    /\ UNCHANGED <<syncVars, hostVars>>
    /\ UNCHANGED touchVars

DrawLines(count, is_3d) ==
    /\ pc = "host"
    /\ FanRoom
    /\ vk_draw_lines("verts", count, is_3d)
    /\ UNCHANGED <<fence, queue, desc_pool, textures, tex_alloc, texVars, pc, cmd>>
    /\ UNCHANGED <<syncVars, hostVars>>
    /\ UNCHANGED touchVars

(* gr_blend values the game passes; anything else takes the default branch *)
BlendFuncs == {"normal", "additive_a", "additive_c", "other"}

(* faulty variant: the two additive cases are swapped *)
BlendOf_swapped(cv_blend_func) ==
    CASE cv_blend_func = "additive_a" -> VK_BLEND_ADDITIVE_C
      [] cv_blend_func = "additive_c" -> VK_BLEND_ADDITIVE_A
      [] OTHER -> VK_BLEND_NORMAL

(* the switch of ogl_set_blending *)
BlendOf(cv_blend_func) ==
    CASE cv_blend_func = "additive_a" -> VK_BLEND_ADDITIVE_A
      [] cv_blend_func = "additive_c" -> VK_BLEND_ADDITIVE_C
      [] OTHER -> VK_BLEND_NORMAL

ogl_set_blending(cv_blend_func) ==
    g_vk' = [g_vk EXCEPT !.current_blend = BlendOf(cv_blend_func)]

(* ogl_start_frame: perspective projection, identity modelview, normal blend *)
StartedPass ==
    [UpdatedMvp([g_vk EXCEPT
                    !.is_3d_mode = TRUE,
                    !.projection_matrix = vk_mat4_perspective(Num(1), <<1, 10>>, Num(5000)),
                    !.modelview_matrix = vk_mat4_identity])
     EXCEPT !.current_blend = VK_BLEND_NORMAL]

ogl_start_frame == g_vk' = StartedPass

(* ogl_end_frame: orthographic projection of the unit square, identity modelview *)
EndedPass ==
    UpdatedMvp([g_vk EXCEPT
                   !.is_3d_mode = FALSE,
                   !.projection_matrix =
                        vk_mat4_ortho(Num(0), Num(1), Num(0), Num(1), Num(-1), Num(1)),
                   !.modelview_matrix = vk_mat4_identity])

ogl_end_frame == g_vk' = EndedPass

SetBlending(cv_blend_func) ==
    /\ pc = "host"
    /\ ogl_set_blending(cv_blend_func)
    /\ UNCHANGED <<fence, cmdbuf, ring, queue, desc_pool, textures, tex_alloc, texVars,
                   pc, cmd>>
    /\ UNCHANGED <<syncVars, hostVars>>
    /\ UNCHANGED touchVars

StartPass ==
    /\ pc = "host"
    /\ ogl_start_frame
    /\ UNCHANGED <<fence, cmdbuf, ring, queue, desc_pool, textures, tex_alloc, texVars,
                   pc, cmd>>
    /\ UNCHANGED <<syncVars, hostVars>>
    /\ UNCHANGED touchVars

EndPass ==
    /\ pc = "host"
    /\ ogl_end_frame
    /\ UNCHANGED <<fence, cmdbuf, ring, queue, desc_pool, textures, tex_alloc, texVars,
                   pc, cmd>>
    /\ UNCHANGED <<syncVars, hostVars>>
    /\ UNCHANGED touchVars

(* the host draws a quad as a fan of 4 vertices *)
DrawQuad(textured, is_3d) ==
    /\ pc = "host"
    /\ DrawRoom
    /\ vk_draw_triangle_fan(FanVerts(4), 4, textured, is_3d)
    /\ UNCHANGED <<fence, queue, desc_pool, textures, tex_alloc, texVars, pc, cmd>>
    /\ UNCHANGED <<syncVars, hostVars>>
    /\ UNCHANGED touchVars

-----------------------------------------------------------------------------
(* vk_texture.cpp *)

NullTex == 0

CreateSteps == {"staging", "image", "view", "sampler", "descriptor_set"}

(* uint32_t values as the set of their one bits *)
Bit == 0 .. 31

Bits32(v) == {b \in 0 .. 30 : (v \div (2 ^ b)) % 2 = 1}

RECURSIVE Val32(_)
Val32(S) ==
    IF S = {}
    THEN 0
    ELSE LET b == CHOOSE x \in S : \A y \in S : x >= y
         IN  2 ^ b + Val32(S \ {b})

(* v--, v++ and v >> n on 32 bits *)
dec32(S) ==
    IF S = {}
    THEN Bit
    ELSE LET k == CHOOSE x \in S : \A y \in S : x <= y
         IN  (S \ {k}) \cup (0 .. (k - 1))

inc32(S) ==
    IF S = Bit
    THEN {}
    ELSE LET k == CHOOSE x \in Bit \ S : \A y \in Bit \ S : x <= y
         IN  (S \ (0 .. k)) \cup {k}

shr32(S, n) == {b - n : b \in {x \in S : x >= n}}

(* next_power_of_two(v), on the bits of v *)
next_power_of_two(S) ==
    LET v0 == dec32(S)
        v1 == v0 \cup shr32(v0, 1)
        v2 == v1 \cup shr32(v1, 2)
        v3 == v2 \cup shr32(v2, 4)
        v4 == v3 \cup shr32(v3, 8)
        v5 == v4 \cup shr32(v4, 16)
    IN  inc32(v5)

(* tex->tw, tex->th for a dimension whose padded size is below 2^31 *)
PaddedSize(v) == Val32(next_power_of_two(Bits32(v)))

(* a * b modulo m without an intermediate above 2 * m *)
RECURSIVE MulMod(_, _, _)
MulMod(a, b, m) ==
    IF b = 0
    THEN 0
    ELSE LET rest == MulMod((a + a) % m, b \div 2, m)
         IN  IF b % 2 = 1 THEN (rest + (a % m)) % m ELSE rest

(* `row * width * 4` is computed in uint32_t: the byte offset modulo 2^32,
   counted here in pixels of 4 bytes, modulo 2^30 *)
TwoTo30 == 1073741824
RowOffset(row, width) == MulMod(row, width, TwoTo30)

(* where the row loop copies row `row`: dst + row * tw * 4 from
   rgba_data + row * w * 4 *)
RowStart(row, w, tw) == [dst |-> RowOffset(row, tw), src |-> RowOffset(row, w)]

(* pixels of the staging buffer the model looks at: <<x, y>> in a buffer of
   tw pixels per row *)
SamplePixels(w, tw, th) ==
    ({0, w - 1, w, tw - 1} \cap (0 .. (tw - 1))) \X (0 .. (th - 1))

(* a zero pixel written by memset; any other pixel is named by the <<x, y>> of
   the source pixel it was copied from *)
ZeroPixel == <<-1, -1>>

(* memcpy(dst + row * tw * 4, rgba_data + row * w * 4, w * 4): the length
   w * 4 is a uint32_t product as well *)
RowCopy(img, row, w, tw) ==
    LET at == RowStart(row, w, tw)
        len == RowOffset(1, w)
        dy == at.dst \div tw
        dx == at.dst % tw
    IN  [p \in DOMAIN img |->
            LET k == IF p[2] = dy THEN p[1] - dx
                     ELSE IF p[2] = dy + 1 THEN tw + p[1] - dx
                     ELSE -1
            IN  IF k >= 0 /\ k < len
                THEN <<(at.src + k) % w, (at.src + k) \div w>>
                ELSE img[p]]

RECURSIVE copy_rows(_, _, _, _, _)
copy_rows(img, row, w, h, tw) ==
    IF row < h
    THEN copy_rows(RowCopy(img, row, w, tw), row + 1, w, h, tw)
    ELSE img

(* the staging buffer after vk_create_texture filled it *)
Staged(w, h, tw, th) ==
    IF w = tw /\ h = th
    THEN [p \in SamplePixels(w, tw, th) |-> p]
    ELSE copy_rows([p \in SamplePixels(w, tw, th) |-> ZeroPixel], 0, w, h, tw)

(* the record vk_create_texture has filled in when step `failing` fails *)
PartialTexture(failing, w, h) ==
    [ZeroTexture EXCEPT
        !.w = w, !.h = h, !.tw = PaddedSize(w), !.th = PaddedSize(h),
        !.image = IF failing \in {"view", "sampler", "descriptor_set"} THEN 1 ELSE 0,
        !.view = IF failing \in {"sampler", "descriptor_set"} THEN 1 ELSE 0,
        !.sampler = IF failing = "descriptor_set" THEN 1 ELSE 0]

(* the texture vk_create_texture returns, with descriptor set d *)
CreatedTexture(d, w, h) ==
    [LiveTexture(d) EXCEPT !.w = w, !.h = h, !.tw = PaddedSize(w), !.th = PaddedSize(h)]

(* the driver calls of vk_destroy_texture(tex), tex not null *)
DestroyTextureCalls(tex) ==
    (IF tex.descriptor_set # VK_NULL_HANDLE /\ g_vk.descriptor_pool # VK_NULL_HANDLE
     THEN <<Destroy("descriptor_set")>> ELSE <<>>)
    \o IfHandle(tex.sampler, Destroy("sampler"))
    \o IfHandle(tex.view, Destroy("view"))
    \o IfHandle(tex.image, Destroy("image"))

(* vk_begin_single_command .. vk_end_single_command: the one-shot upload *)
UploadCalls ==
    <<Create("command_buffer"), [op |-> "submit", obj |-> "command_buffer"],
      [op |-> "wait_idle", obj |-> "graphics_queue"], Destroy("command_buffer")>>

(* faulty variant: the staging buffer is not released when the image fails *)
CreateTextureCalls_keepsStaging(failing, w, h) ==
    IF failing = "staging" THEN <<>>
    ELSE IF failing = "image" THEN <<Create("staging")>>
    ELSE <<Create("staging"), Create("image")>> \o UploadCalls \o <<Destroy("staging")>>
         \o IF failing = "view" THEN DestroyTextureCalls(PartialTexture(failing, w, h))
            ELSE <<Create("view")>>
                 \o IF failing = "sampler"
                    THEN DestroyTextureCalls(PartialTexture(failing, w, h))
                    ELSE <<Create("sampler")>>
                         \o IF failing = "descriptor_set"
                            THEN DestroyTextureCalls(PartialTexture(failing, w, h))
                            ELSE <<Create("descriptor_set")>>

(* the driver calls of vk_create_texture in which step `failing` fails *)
CreateTextureCalls(failing, w, h) ==
    IF failing = "staging" THEN <<>>
    ELSE IF failing = "image" THEN <<Create("staging"), Destroy("staging")>>
    ELSE <<Create("staging"), Create("image")>> \o UploadCalls \o <<Destroy("staging")>>
         \o IF failing = "view" THEN DestroyTextureCalls(PartialTexture(failing, w, h))
            ELSE <<Create("view")>>
                 \o IF failing = "sampler"
                    THEN DestroyTextureCalls(PartialTexture(failing, w, h))
                    ELSE <<Create("sampler")>>
                         \o IF failing = "descriptor_set"
                            THEN DestroyTextureCalls(PartialTexture(failing, w, h))
                            ELSE <<Create("descriptor_set")>>

(* the texture objects alive after the driver calls cs were made for texture t *)
RECURSIVE AfterCalls(_, _, _)
AfterCalls(objs, cs, t) ==
    IF cs = <<>>
    THEN objs
    ELSE LET o == [kind |-> Head(cs).obj, tex |-> t]
         IN  AfterCalls(IF Head(cs).op = "create" THEN objs \cup {o}
                        ELSE IF Head(cs).op = "destroy" THEN objs \ {o}
                        ELSE objs,
                        Tail(cs), t)

(* the image after the one-shot upload: vkQueueSubmit's result is not looked
   at, and vkQueueWaitIdle returns at once when nothing was submitted *)
UploadedImage(w, h, submit_result) ==
    IF submit_result = "VK_SUCCESS"
    THEN [layout |-> "shader_read",
          pixels |-> Staged(w, h, PaddedSize(w), PaddedSize(h))]
    ELSE [layout |-> "undefined", pixels |-> <<>>]

(* vk_create_texture(w, h, rgba_data): `failing` is the step that fails, or
   "none"; `submit_result` is what vkQueueSubmit returns if reached.  Every
   failing path returns nullptr: the record is deleted or zeroed and never
   handed out. *)
vk_create_texture(t, w, h, failing, submit_result) ==
    /\ tex_calls' = CreateTextureCalls(failing, w, h)
    /\ tex_objects' = AfterCalls(tex_objects, CreateTextureCalls(failing, w, h), t)
    /\ IF failing # "none"
       THEN UNCHANGED <<textures, tex_alloc, desc_pool, tex_image>>
       ELSE LET d == AllocateDescriptorSet IN
               /\ desc_pool' = desc_pool \cup {d}
               /\ textures' = [textures EXCEPT ![t] = CreatedTexture(d, w, h)]
               /\ tex_alloc' = tex_alloc \cup {t}
               /\ tex_image' = [tex_image EXCEPT ![t] = UploadedImage(w, h, submit_result)]

(* what vk_destroy_texture leaves in g_vk *)
DestroyedState(t) == g_vk

(* faulty variant: only the valid flag is cleared *)
DestroyedTexture_keepsHandles(tex) == [tex EXCEPT !.valid = FALSE]

(* `*tex = {}` *)
DestroyedTexture(tex) == ZeroTexture

(* faulty variant: the descriptor set is not given back to the pool *)
PoolAfterDestroy_noFree(tex) == desc_pool

(* if (tex->descriptor_set && g_vk.descriptor_pool) vkFreeDescriptorSets(...) *)
PoolAfterDestroy(tex) ==
    IF tex.descriptor_set # VK_NULL_HANDLE /\ g_vk.descriptor_pool # VK_NULL_HANDLE
    THEN desc_pool \ {tex.descriptor_set}
    ELSE desc_pool

vk_destroy_texture(t) ==
    IF t = NullTex
    THEN /\ tex_calls' = <<>>
         /\ UNCHANGED <<textures, desc_pool, g_vk, tex_objects, tex_image>>
    ELSE /\ desc_pool' = PoolAfterDestroy(textures[t])
         /\ tex_calls' = DestroyTextureCalls(textures[t])
         /\ tex_objects' = AfterCalls(tex_objects, DestroyTextureCalls(textures[t]), t)
         /\ tex_image' = [tex_image EXCEPT ![t] =
                              IF textures[t].image # VK_NULL_HANDLE THEN NoImage ELSE @]
         /\ textures' = [textures EXCEPT ![t] = DestroyedTexture(textures[t])]
         /\ g_vk' = DestroyedState(t)

(* faulty variant: the valid flag is not looked at *)
BindTarget_noValidTest(t) ==
    IF t = NullTex
    THEN g_vk.white_texture.descriptor_set
    ELSE textures[t].descriptor_set

(* the descriptor set vk_bind_texture selects *)
BindTarget(t) ==
    IF t = NullTex \/ ~textures[t].valid
    THEN g_vk.white_texture.descriptor_set
    ELSE textures[t].descriptor_set

vk_bind_texture(t) == g_vk' = [g_vk EXCEPT !.bound_texture = BindTarget(t)]

(* the host creates a texture; handles are handed out in increasing order *)
CreateTexture(w, h, failing, submit_result) ==
    /\ pc = "host"
    /\ g_vk.initialized
    /\ tex_alloc # TexIds
    /\ vk_create_texture(CHOOSE t \in TexIds \ tex_alloc : \A u \in TexIds \ tex_alloc : t <= u,
                         w, h, failing, submit_result)
    /\ UNCHANGED <<g_vk, fence, cmdbuf, ring, queue, pc, cmd>>
    /\ UNCHANGED <<syncVars, hostVars>>
    /\ UNCHANGED touchVars

DestroyTexture(t) ==
    /\ pc = "host"
    /\ vk_destroy_texture(t)
    /\ UNCHANGED <<fence, cmdbuf, ring, queue, tex_alloc, pc, cmd>>
    /\ UNCHANGED <<syncVars, hostVars>>
    /\ UNCHANGED touchVars

BindTexture(t) ==
    /\ pc = "host"
    /\ vk_bind_texture(t)
    /\ UNCHANGED <<fence, cmdbuf, ring, queue, desc_pool, textures, tex_alloc, texVars, pc, cmd>>
    /\ UNCHANGED <<syncVars, hostVars>>
    /\ UNCHANGED touchVars

(* what vkAllocateDescriptorSets returns for a pool of maxSets sets, DescIds
   standing for the 1024 of vk_create_descriptor_pool *)
AllocateResult ==
    IF DescIds \ desc_pool = {} THEN "VK_ERROR_OUT_OF_POOL_MEMORY" ELSE "VK_SUCCESS"

(* the records that hold no texture: never filled in, or reset by vk_destroy_texture *)
FreeRecords == {t \in TexIds : textures[t] = ZeroTexture}

(* the host creates a texture, also when every descriptor set of the pool is
   taken; `failing` is the step the driver fails for a reason of its own.  A
   destroyed texture's record is given back by the host and used again; a
   create that fails needs no record *)
PoolCreateTexture(w, h, failing) ==
    LET step == IF failing = "none" /\ AllocateResult # "VK_SUCCESS"
                THEN "descriptor_set" ELSE failing
        t == IF FreeRecords = {} THEN NullTex
             ELSE CHOOSE r \in FreeRecords : \A u \in FreeRecords : r <= u
    IN  /\ pc = "host"
        /\ g_vk.initialized
        /\ step = "none" => t # NullTex
        /\ vk_create_texture(t, w, h, step, "VK_SUCCESS")
        /\ UNCHANGED <<g_vk, fence, cmdbuf, ring, queue, pc, cmd>>
        /\ UNCHANGED <<syncVars, hostVars>>
        /\ UNCHANGED touchVars

-----------------------------------------------------------------------------

-----------------------------------------------------------------------------
(* The render thread inside gr_flip, the GPU, and the host's lifecycle calls *)
FrameNext ==
    \/ \E w \in Sizes, failing \in InitSteps \cup {"none"} : gr_init(w, failing)
    \/ gr_flip
    \/ \E result \in AcquireResults : vk_begin_frame(result)
    \/ FlipEndFrame
    \/ \E sr \in SubmitResults, pr \in PresentResults : vk_present(sr, pr)
    \/ GpuComplete
    \/ PresentExecute
    \/ \E w \in Sizes : gr_set_mode(w, "none")
    \/ gr_close

(* The same with a driver that reports no failure other than a stale surface,
   the GPU taking the two steps of a frame together *)
SteadyNext ==
    \/ gr_init(MaxSize, "none")
    \/ gr_flip
    \/ \E result \in {"VK_SUCCESS", "VK_ERROR_OUT_OF_DATE_KHR"} : vk_begin_frame(result)
    \/ FlipEndFrame
    \/ vk_present("VK_SUCCESS", "VK_SUCCESS")
    \/ GpuCompleteAndPresent
    \/ gr_set_mode(MaxSize, "none")
    \/ gr_close

(* The texture calls of the host *)
TextureNext ==
    \/ \E failing \in CreateSteps \cup {"none"} : CreateTexture(1, 1, failing, "VK_SUCCESS")
    \/ \E t \in tex_alloc \cup {NullTex} : DestroyTexture(t)
    \/ \E t \in tex_alloc \cup {NullTex} : BindTexture(t)

(* The frame loop on a surface that never goes stale, the GPU taking the two
   steps of a frame together *)
PlainNext ==
    \/ gr_init(MaxSize, "none")
    \/ gr_flip
    \/ vk_begin_frame("VK_SUCCESS")
    \/ FlipEndFrame
    \/ vk_present("VK_SUCCESS", "VK_SUCCESS")
    \/ GpuCompleteAndPresent
    \/ gr_close

(* Frame scheduling with textures; the host draws triangle lists that are
   large against the ring buffer, so that the ring fills within a frame *)
Next ==
    \/ SteadyNext
    \/ TextureNext
    \/ \E c \in BigCounts : DrawTriangles(c, TRUE, TRUE)

Spec == Init /\ [][Next]_vars

(* Frame scheduling with large triangle lists, no texture calls *)
NextDraw ==
    \/ SteadyNext
    \/ \E c \in BigCounts : DrawTriangles(c, TRUE, TRUE)

SpecDraw == Init /\ [][NextDraw]_vars

(* Texture calls and large triangle lists in the plain frame loop *)
NextTexture ==
    \/ PlainNext
    \/ TextureNext
    \/ \E c \in BigCounts : DrawTriangles(c, TRUE, TRUE)

SpecTexture == Init /\ [][NextTexture]_vars

(* Frame scheduling with a host that draws triangle fans and lines *)
NextFan ==
    \/ PlainNext
    \/ \E c \in FanCounts : DrawTriangleFan(c, FALSE, TRUE)
    \/ \E c \in LineCounts : DrawLines(c, TRUE)

SpecFan == Init /\ [][NextFan]_vars

(* texture sizes the host asks for: 1, a width that needs padding, and a
   width whose rows are 2^32 bytes long *)
TexWidths == {1, 3, TwoTo30}
TexHeights == 1 .. MaxTexHeight

(* The texture manager alone: every size, every failing step, both results of
   the upload's vkQueueSubmit *)
NextUpload ==
    \/ gr_init(MaxSize, "none")
    \/ \E w \in TexWidths, h \in TexHeights, failing \in CreateSteps \cup {"none"},
          sr \in SubmitResults : CreateTexture(w, h, failing, sr)
    \/ \E t \in TexIds \cup {NullTex} : DestroyTexture(t)
    \/ \E t \in tex_alloc \cup {NullTex} : BindTexture(t)
    \/ gr_close

SpecUpload == Init /\ [][NextUpload]_vars

(* Textures created, bound and drawn with in the plain frame loop, with both
   results of the upload's vkQueueSubmit *)
NextSample ==
    \/ PlainNext
    \/ \E sr \in SubmitResults : CreateTexture(1, 1, "none", sr)
    \/ \E t \in tex_alloc \cup {NullTex} : BindTexture(t)
    \/ \E c \in TriCounts : DrawTriangles(c, TRUE, FALSE)

SpecSample == Init /\ [][NextSample]_vars

(* Lines drawn under every blend mode in the plain frame loop *)
NextPipeline ==
    \/ PlainNext
    \/ \E b \in BlendFuncs : SetBlending(b)
    \/ \E is_3d \in BOOLEAN : DrawLines(2, is_3d)

SpecPipeline == Init /\ [][NextPipeline]_vars

(* the size of the texture of the quad scenario *)
QuadTexture == [w |-> 64, h |-> 64]

(* A flat 3D quad and a textured 2D quad drawn as fans, with one 64 x 64
   texture, in the plain frame loop *)
NextQuad ==
    \/ PlainNext
    \/ (tex_alloc = {} /\ CreateTexture(QuadTexture.w, QuadTexture.h, "none", "VK_SUCCESS"))
    \/ \E t \in tex_alloc : BindTexture(t)
    \/ DrawQuad(FALSE, TRUE)
    \/ DrawQuad(TRUE, FALSE)

SpecQuad == Init /\ [][NextQuad]_vars

(* The 3D pass and the 2D pass are started in the plain frame loop, and
   triangles are drawn under whatever transform is current *)
NextMatrix ==
    \/ PlainNext
    \/ StartPass
    \/ EndPass
    \/ DrawTriangles(3, FALSE, g_vk.is_3d_mode)

SpecMatrix == Init /\ [][NextMatrix]_vars

(* Blend modes set, and the 3D and 2D passes started, in the plain frame loop *)
NextBlend ==
    \/ PlainNext
    \/ \E b \in BlendFuncs : SetBlending(b)
    \/ StartPass
    \/ EndPass

SpecBlend == Init /\ [][NextBlend]_vars

(* The plain frame loop with resizes whose swapchain recreation may fail at
   any of its steps *)
NextRecreate ==
    \/ PlainNext
    \/ \E w \in Sizes, failing \in RecreateSteps \cup {"none"} : gr_set_mode(w, failing)

SpecRecreate == Init /\ [][NextRecreate]_vars

(* The texture manager between vk_init and vk_shutdown, with a host that
   creates textures until the descriptor pool is exhausted *)
NextPool ==
    \/ gr_init(MaxSize, "none")
    \/ \E w \in {1, 3}, h \in TexHeights, failing \in CreateSteps \cup {"none"} :
          PoolCreateTexture(w, h, failing)
    \/ \E t \in TexIds : DestroyTexture(t)
    \/ \E t \in TexIds \cup {NullTex} : BindTexture(t)

SpecPool == Init /\ [][NextPool]_vars

(* Frame scheduling alone, with every driver result *)
SpecFrame == Init /\ [][FrameNext]_vars

(* The GPU completes every submission it was handed, the presentation engine
   executes every request it can, and a vk_begin_frame that can return does *)
FrameFairness ==
    /\ WF_vars(GpuComplete)
    /\ WF_vars(PresentExecute)
    /\ WF_vars(\E result \in AcquireResults : vk_begin_frame(result))

SpecFrameFair == Init /\ [][FrameNext]_vars /\ FrameFairness

(* The same for a driver that reports no error *)
PlainFairness ==
    /\ WF_vars(GpuCompleteAndPresent)
    /\ WF_vars(vk_begin_frame("VK_SUCCESS"))

SpecPlainFair == Init /\ [][PlainNext]_vars /\ PlainFairness

(* Window resizes on a surface that may report its own size, with textures
   alive and draws recorded when the swapchain is recreated *)
NextSwapchain ==
    \/ SteadyNext
    \/ \E w \in Sizes : gr_set_mode(w, "none")
    \/ \E e \in Sizes \cup {UINT32_MAX} : SurfaceResized(e)
    \/ \E failing \in CreateSteps \cup {"none"} : CreateTexture(1, 1, failing, "VK_SUCCESS")
    \/ \E c \in LineCounts : DrawLines(c, TRUE)

SpecSwapchain == Init /\ [][NextSwapchain]_vars

-----------------------------------------------------------------------------
(* Properties of the frame scheduler *)

(* a step of vk_begin_frame that got past vkWaitForFences *)
PassedFenceWait == pc \in {"begin", "begin_next"} /\ pc' # pc /\ g_vk.initialized

(* a step of vk_begin_frame that returned true: it alone resets a signaled fence *)
BeginSucceeded ==
    /\ PassedFenceWait
    /\ fence[g_vk.current_frame]
    /\ ~fence'[g_vk.current_frame]

OtherSlot(f) == (f + 1) % VK_MAX_FRAMES_IN_FLIGHT

(* the CPU touches slot f's ring buffer: memcpy of vertices, or cursor reset *)
RingTouched(f) ==
    \/ ring'[f] # ring[f]
    \/ g_vk'.frames[f].vertex_offset # g_vk.frames[f].vertex_offset
    \/ (BeginSucceeded /\ g_vk.current_frame = f)

(* C1: vk_begin_frame on slot f gets past its fence wait only when the last
   submission made on slot f has completed (no submission of slot f is still
   on the queue); the frame submitted just before, on the other slot, may
   still be in flight. *)
C1_FenceWaitPacesSlot ==
    [][PassedFenceWait => ~InFlight(g_vk.current_frame)]_vars

(* a frame was begun on a slot used before (its ring holds an earlier frame's
   vertices) while the previous frame, on the other slot, is still in flight *)
C1_Witness ==
    /\ pc = "host"
    /\ g_vk.frame_started
    /\ Frame.vertex_offset = 0
    /\ ring[g_vk.current_frame] # <<>>
    /\ InFlight(OtherSlot(g_vk.current_frame))
    /\ ~InFlight(g_vk.current_frame)

(* C2: at most VK_MAX_FRAMES_IN_FLIGHT submissions are incomplete, and while the
   renderer is up the CPU neither writes slot f's ring buffer nor resets its
   cursor while a submission reading that ring buffer is on the queue. *)
C2_RingNotOverwrittenInFlight ==
    /\ [](Len(queue) <= VK_MAX_FRAMES_IN_FLIGHT)
    /\ [][\A f \in Slots : (RingTouched(f) /\ g_vk'.initialized) => ~InFlight(f)]_vars

(* two frames in flight, the GPU reading vertices from both ring buffers,
   the render thread held at the fence wait *)
C2_Witness ==
    /\ Len(queue) = VK_MAX_FRAMES_IN_FLIGHT
    /\ \A f \in Slots : InFlight(f) /\ ring[f] # <<>> /\ cmdbuf[f] # <<>>
    /\ pc = "begin_next"
    /\ ~fence[g_vk.current_frame]

(* C3: every slot's vertex_offset is at most VK_VERTEX_RING_SIZE. *)
C3_CursorWithinCapacity ==
    \A f \in Slots : g_vk.frames[f].vertex_offset <= VK_VERTEX_RING_SIZE

(* the cursor stands at the largest offset a draw can leave: not one more
   vertex fits *)
C3_Witness ==
    /\ g_vk.frame_started
    /\ Frame.vertex_offset = FitCount * sizeof_vk_vertex
    /\ Frame.vertex_offset + sizeof_vk_vertex > VK_VERTEX_RING_SIZE

-----------------------------------------------------------------------------
(* Properties of the draw emitter *)

(* what a draw call can change *)
DrawState == <<g_vk, cmdbuf, ring>>

LastOf(q) == q[Len(q)]

(* the draw call recorded one draw of `count` vertices at the old cursor, copied
   the vertices there and advanced the cursor by their size; the frame stays open *)
Emitted(count) ==
    LET f == g_vk.current_frame
        off == g_vk.frames[f].vertex_offset
        size == count * sizeof_vk_vertex
    IN  /\ g_vk' = [g_vk EXCEPT !.frames[f].vertex_offset = off + size]
        /\ Len(cmdbuf'[f]) = Len(cmdbuf[f]) + 1
        /\ LastOf(cmdbuf'[f]).offset = off
        /\ LastOf(cmdbuf'[f]).count = count
        /\ LastOf(ring'[f]).off = off
        /\ LastOf(ring'[f]).len = size
        /\ \A g \in Slots \ {f} : cmdbuf'[g] = cmdbuf[g] /\ ring'[g] = ring[g]

(* C4: in an open frame, a draw of count > 0 vertices whose size, count x 36
   bytes, exceeds capacity - cursor is dropped (cursor, command buffer, ring
   buffer and the open frame unchanged); a draw whose size is at most
   capacity - cursor is recorded and advances the cursor by its size.  The
   emitter's test accepts a size equal to capacity - cursor (a cursor the
   vertex-sized draws themselves never produce: 36 does not divide the
   capacity). *)
C4_OversizedDrawDropped ==
    /\ g_vk.frame_started =>
        \A count \in BigCounts \ {0}, textured \in BOOLEAN, is_3d \in BOOLEAN :
            IF count * sizeof_vk_vertex > VK_VERTEX_RING_SIZE - Frame.vertex_offset
            THEN /\ ~ENABLED (/\ vk_draw_triangles("verts", count, textured, is_3d)
                              /\ DrawState' # DrawState)
                 /\ ~ENABLED (/\ vk_draw_lines("verts", count, is_3d)
                              /\ DrawState' # DrawState)
            ELSE /\ ENABLED (/\ vk_draw_triangles("verts", count, textured, is_3d)
                             /\ Emitted(count))
                 /\ ENABLED (/\ vk_draw_lines("verts", count, is_3d)
                             /\ Emitted(count))
    /\ \A count \in 1 .. MaxFanCount :
          ~RingFull(VK_VERTEX_RING_SIZE - NeededBytes(count), NeededBytes(count))

(* an open frame whose cursor stands at half the ring: a draw of FitCount
   vertices no longer fits, one of half as many still does *)
C4_Witness ==
    /\ pc = "host"
    /\ g_vk.frame_started
    /\ Len(cmdbuf[g_vk.current_frame]) = 1
    /\ Frame.vertex_offset = (FitCount \div 2) * sizeof_vk_vertex
    /\ FitCount * sizeof_vk_vertex > VK_VERTEX_RING_SIZE - Frame.vertex_offset

(* C5: a vk_begin_frame that returns true leaves the slot's cursor at 0, the
   bound-texture reference null and the frame open (frame_started and
   in_render_pass), whatever the slot held before; a draw recorded while the
   reference is null binds the white texture's descriptor set. *)
C5_BeginFrameResets ==
    /\ [][BeginSucceeded =>
            /\ g_vk'.frames[g_vk.current_frame].vertex_offset = 0
            /\ g_vk'.bound_texture = VK_NULL_HANDLE
            /\ g_vk'.frame_started
            /\ g_vk'.in_render_pass
            /\ g_vk'.current_frame = g_vk.current_frame]_vars
    /\ [][\A f \in Slots :
            (Len(cmdbuf'[f]) > Len(cmdbuf[f]) /\ g_vk.bound_texture = VK_NULL_HANDLE)
                => LastOf(cmdbuf'[f]).ds = g_vk.white_texture.descriptor_set]_vars

(* a frame just begun on a slot whose ring still holds an earlier frame's
   vertices: cursor back at 0, nothing bound *)
C5_Witness ==
    /\ pc = "host"
    /\ g_vk.frame_started
    /\ g_vk.in_render_pass
    /\ Frame.vertex_offset = 0
    /\ g_vk.bound_texture = VK_NULL_HANDLE
    /\ ring[g_vk.current_frame] # <<>>
    /\ cmdbuf[g_vk.current_frame] = <<>>

(* C6: while no frame is open, vk_draw_triangles, vk_draw_triangle_fan and
   vk_draw_lines change nothing: no command, no vertex copied, cursor and the
   rest of g_vk as before. *)
C6_NoFrameNoDraw ==
    ~g_vk.frame_started =>
        /\ \A count \in BigCounts \cup TriCounts, textured \in BOOLEAN, is_3d \in BOOLEAN :
              ~ENABLED (/\ vk_draw_triangles("verts", count, textured, is_3d)
                        /\ DrawState' # DrawState)
        /\ \A count \in FanCounts, textured \in BOOLEAN, is_3d \in BOOLEAN :
              ~ENABLED (/\ vk_draw_triangle_fan(FanVerts(count), count, textured, is_3d)
                        /\ DrawState' # DrawState)
        /\ \A count \in BigCounts \cup LineCounts, is_3d \in BOOLEAN :
              ~ENABLED (/\ vk_draw_lines("verts", count, is_3d)
                        /\ DrawState' # DrawState)

(* the renderer is up, an earlier frame was drawn and presented, and no frame
   is open because the last vk_begin_frame failed *)
C6_Witness ==
    /\ pc = "host"
    /\ g_vk.initialized
    /\ ~g_vk.frame_started
    /\ \E f \in Slots : ring[f] # <<>>

(* no frame is open after shutdown *)
C6_WitnessShutdown == ~g_vk.initialized /\ ~g_vk.frame_started /\ pc = "host"

(* the triangles of a fan of `count` vertices, apex first, in fan order *)
RECURSIVE FanTriangles(_)
FanTriangles(count) ==
    IF count < 3
    THEN <<>>
    ELSE FanTriangles(count - 1) \o <<1, count - 1, count>>

(* C7: for count >= 3, vk_draw_triangle_fan hands the emitter one draw of
   3*(count-2) vertices, the triangles {v0, v(i+1), v(i+2)} for i = 0..count-3
   in that order (seen in the ring buffer and the recorded vertex count when
   the frame is open and the draw fits); for count < 3 it changes nothing. *)
C7_FanExpansion ==
    \A count \in FanCounts, textured \in BOOLEAN, is_3d \in BOOLEAN :
        IF count < 3
        THEN ~ENABLED (/\ vk_draw_triangle_fan(FanVerts(count), count, textured, is_3d)
                       /\ DrawState' # DrawState)
        ELSE g_vk.frame_started =>
                ENABLED (/\ vk_draw_triangle_fan(FanVerts(count), count, textured, is_3d)
                         /\ Emitted(3 * (count - 2))
                         /\ LastOf(ring'[g_vk.current_frame]).verts = FanTriangles(count)
                         /\ LastOf(cmdbuf'[g_vk.current_frame]).pipe
                               = TrianglePipe(textured, is_3d))

(* a fan of MaxFanCount vertices was drawn in an open frame: its triangles are
   in the ring buffer *)
C7_Witness ==
    /\ g_vk.frame_started
    /\ ring[g_vk.current_frame] # <<>>
    /\ LastOf(ring[g_vk.current_frame]).verts = FanTriangles(MaxFanCount)
    /\ LastOf(cmdbuf[g_vk.current_frame]).count = 3 * (MaxFanCount - 2)

-----------------------------------------------------------------------------
(* Properties of texture binding *)

(* a draw was recorded in slot f's command buffer *)
DrawRecorded(f) == Len(cmdbuf'[f]) > Len(cmdbuf[f])

(* C8: no draw is recorded with a descriptor set that has been released: after
   vk_destroy_texture(t), also of the texture that is bound in the open frame,
   later draws bind a live descriptor set. *)
C8_NoDrawBindsReleasedSet ==
    [][\A f \in Slots : DrawRecorded(f) => LastOf(cmdbuf'[f]).ds \in desc_pool]_vars

(* C9: vk_bind_texture of null or of a texture whose valid flag is false (a
   destroyed texture among them) sets the bound reference to the white
   texture's descriptor set, and a draw recorded with that reference binds the
   white texture's live descriptor set. *)
C9_BindFallsBackToWhite ==
    /\ [][\A t \in tex_alloc \cup {NullTex} :
            (BindTexture(t) /\ (t = NullTex \/ ~textures[t].valid))
                => g_vk'.bound_texture = g_vk.white_texture.descriptor_set]_vars
    /\ [][\A f \in Slots :
            (DrawRecorded(f) /\ g_vk.bound_texture = g_vk.white_texture.descriptor_set)
                => /\ LastOf(cmdbuf'[f]).ds = g_vk.white_texture.descriptor_set
                   /\ LastOf(cmdbuf'[f]).ds \in desc_pool]_vars

(* a texture was created, bound and destroyed; the reference then fell back to
   the white texture and a draw was recorded with it *)
C9_Witness ==
    /\ \E t \in tex_alloc : ~textures[t].valid
    /\ g_vk.frame_started
    /\ g_vk.bound_texture = g_vk.white_texture.descriptor_set
    /\ g_vk.bound_texture # VK_NULL_HANDLE
    /\ cmdbuf[g_vk.current_frame] # <<>>
    /\ LastOf(cmdbuf[g_vk.current_frame]).ds = g_vk.white_texture.descriptor_set
    /\ \E i \in 1 .. Len(cmdbuf[g_vk.current_frame]) :
          cmdbuf[g_vk.current_frame][i].ds # g_vk.white_texture.descriptor_set

-----------------------------------------------------------------------------
(* Properties of the stale-surface path *)

(* C10: when vkAcquireNextImageKHR reports VK_ERROR_OUT_OF_DATE_KHR,
   vk_begin_frame recreates the swapchain and returns false to gr_flip, which
   returns to the host; no frame is open, nothing was reset or recorded, and the
   slot's fence is signaled, so the next vk_begin_frame passes its fence wait. *)
C10_StaleAcquireDropsFrame ==
    [][(vk_begin_frame("VK_ERROR_OUT_OF_DATE_KHR") /\ g_vk.initialized) =>
          /\ g_vk'.swapchain = g_vk.swapchain + 1
          /\ pc' = "host"
          /\ ~g_vk'.frame_started
          /\ ~g_vk'.in_render_pass
          /\ g_vk'.current_frame = g_vk.current_frame
          /\ g_vk'.frames = g_vk.frames
          /\ cmdbuf' = cmdbuf
          /\ fence'[g_vk.current_frame]]_vars

(* after a presented frame the next vk_begin_frame failed on a stale surface:
   back in the host, the swapchain recreated, no frame open, the fence signaled *)
C10_Witness ==
    /\ pc = "host"
    /\ g_vk.initialized
    /\ ~g_vk.frame_started
    /\ g_vk.swapchain > 1
    /\ g_vk.current_frame = 1
    /\ fence[g_vk.current_frame]

-----------------------------------------------------------------------------
(* Properties of submission and presentation *)

(* the render thread stands at vk_begin_frame on an initialized context *)
AtFenceWait == pc \in {"begin", "begin_next"} /\ g_vk.initialized

(* C11: after a failed vkQueueSubmit or vkQueuePresentKHR in vk_present the
   renderer recovers: whenever vk_begin_frame is reached, the fence of its slot
   is signaled or a queued submission will signal it, so the fence wait
   returns. *)
C11_BeginFrameReturns ==
    AtFenceWait => (fence[g_vk.current_frame] \/ InFlight(g_vk.current_frame))

(* the phase of a frame slot, read off its command buffer *)
SlotPhase(c) ==
    CASE c.state \in {"initial", "invalid"} -> "Idle"
      [] c.state = "recording" -> "Recording"
      [] c.state = "executable" -> "Closed"
      [] c.state = "pending" -> "Submitted"

(* the step takes slot f from one phase to the next, by the call that may *)
PhaseMove(f) ==
    LET from == SlotPhase(cmd[f])
        to == SlotPhase(cmd'[f])
        here == g_vk.current_frame = f
    IN  \/ to = from
        \/ from = "Idle" /\ to = "Recording" /\ here /\ pc \in {"begin", "begin_next"}
        \/ from = "Recording" /\ to = "Closed" /\ here /\ pc = "end"
        \/ from = "Closed" /\ to = "Submitted" /\ here /\ pc = "present"
        \/ from = "Submitted" /\ to = "Idle"

(* vk_begin_frame, called first in gr_flip, returned false *)
FlipBeginFailed == pc = "begin" /\ pc' = "host"

(* C12: a slot moves only Idle -> (acquire in vk_begin_frame) -> Recording ->
   closed by vk_end_frame -> Submitted by vk_present -> Idle; vk_present
   submits the command buffer of the current slot only when it was begun by a
   successful vk_begin_frame and closed by vk_end_frame since; a gr_flip
   whose vk_begin_frame failed ends there and hands nothing to the queue. *)
C12_SlotLifecycle ==
    /\ [][g_vk'.initialized => \A f \in Slots : PhaseMove(f)]_vars
    /\ [][Len(queue') > Len(queue) =>
            /\ pc = "present"
            /\ cmd[g_vk.current_frame].state = "executable"
            /\ queue' = Append(queue, Submission(g_vk.current_frame))]_vars
    /\ [][FlipBeginFailed =>
            /\ queue' \in {queue, <<>>}
            /\ presents' \in {presents, <<>>}
            /\ \A f \in Slots : cmd'[f].state # "pending"
                                  \/ cmd[f].state = "pending"]_vars

(* the first gr_flip failed on a stale surface; later flips took both slots
   through their phases: one frame complete, one submitted, one being recorded *)
C12_Witness ==
    /\ pc = "host"
    /\ g_vk.swapchain > 1
    /\ g_vk.frame_started
    /\ cmd[g_vk.current_frame].state = "recording"
    /\ cmd[OtherSlot(g_vk.current_frame)].state = "pending"
    /\ Len(queue) = 1

(* the submissions that complete in this step: the oldest ones on the queue *)
Completing == {queue[i] : i \in 1 .. (Len(queue) - Len(queue'))}

(* the present requests that are executed in this step *)
Executing == {presents[i] : i \in 1 .. (Len(presents) - Len(presents'))}

(* C13: on the GPU a frame's work runs only with its image acquired
   (image_available signaled), and its present request is executed only when
   the frame's work is complete (render_finished signaled, or signaled by a
   submission that completes in the same device-idle wait): no image is
   presented before its rendering has finished. *)
C13_AcquireRenderPresentOrder ==
    /\ [][\A s \in Completing : g_vk.initialized => image_available[s.slot]]_vars
    /\ [][\A p \in Executing :
            g_vk.initialized =>
                \/ render_finished[p.slot]
                \/ \E s \in Completing : s.slot = p.slot]_vars

-----------------------------------------------------------------------------
(* Properties of vk_end_frame *)

(* what vk_end_frame can change *)
EndState == <<g_vk, cmd>>

(* C14: vk_end_frame submits nothing.  With a frame open it closes the slot's
   command buffer (ending the render pass) and clears frame_started and
   in_render_pass, leaving the frame index, the cursors, the fences, the
   semaphores, the queue and everything else as they were; with no frame open
   it changes nothing. *)
C14_EndFrameClosesOnly ==
    /\ [](~g_vk.frame_started => ~ENABLED (vk_end_frame /\ EndState' # EndState))
    /\ [][FlipEndFrame =>
            /\ g_vk.frame_started
            /\ g_vk' = [g_vk EXCEPT !.frame_started = FALSE, !.in_render_pass = FALSE]
            /\ g_vk'.current_frame = g_vk.current_frame
            /\ g_vk'.frames = g_vk.frames
            /\ cmd[g_vk.current_frame].state = "recording"
            /\ cmd' = [cmd EXCEPT ![g_vk.current_frame].state = "executable"]
            /\ fence' = fence
            /\ queue' = queue
            /\ presents' = presents
            /\ image_available' = image_available
            /\ render_finished' = render_finished
            /\ cmdbuf' = cmdbuf
            /\ ring' = ring]_vars

(* vk_end_frame has just closed the frame of a slot while the frame before it,
   on the other slot, is still in flight *)
C14_Witness ==
    /\ pc = "present"
    /\ ~g_vk.frame_started
    /\ ~g_vk.in_render_pass
    /\ cmd[g_vk.current_frame].state = "executable"
    /\ ~fence[g_vk.current_frame]
    /\ InFlight(OtherSlot(g_vk.current_frame))

-----------------------------------------------------------------------------
(* Properties of swapchain recreation *)

(* C15: vk_recreate_swapchain idles the device before it destroys the
   framebuffers, image views, depth resources and the old swapchain, so work
   on the queue never references a destroyed one of them: every queued
   submission renders to a framebuffer of the current swapchain. *)
C15_QueuedWorkOnLiveFramebuffers ==
    \A i \in 1 .. Len(queue) : queue[i].framebuffer = g_vk.framebuffers

(* a step in which vk_recreate_swapchain ran to its end *)
Recreated == g_vk.initialized /\ g_vk'.initialized /\ g_vk'.swapchain # g_vk.swapchain

(* the step left everything that does not depend on the swapchain as it was:
   render pass, pipelines and their layout, descriptor pool and layout, the
   descriptor sets of all textures, the per-frame resources and cursors *)
RecreateKeeps ==
    /\ g_vk'.render_pass = g_vk.render_pass
    /\ g_vk'.pipelines = g_vk.pipelines
    /\ g_vk'.pipeline_layout = g_vk.pipeline_layout
    /\ g_vk'.descriptor_pool = g_vk.descriptor_pool
    /\ g_vk'.descriptor_set_layout = g_vk.descriptor_set_layout
    /\ g_vk'.command_pool = g_vk.command_pool
    /\ g_vk'.white_texture = g_vk.white_texture
    /\ g_vk'.bound_texture = g_vk.bound_texture
    /\ g_vk'.frames = g_vk.frames
    /\ g_vk'.current_frame = g_vk.current_frame
    /\ textures' = textures
    /\ desc_pool' = desc_pool
    /\ cmdbuf' = cmdbuf
    /\ ring' = ring
    /\ gpu_objects' = gpu_objects

(* the step replaced the swapchain, its views, the depth buffer and the
   framebuffers by new ones *)
RecreateRebuilds ==
    /\ g_vk'.swapchain = g_vk.swapchain + 1
    /\ g_vk'.swapchain_views = g_vk'.swapchain
    /\ g_vk'.depth_image = g_vk'.swapchain
    /\ g_vk'.depth_view = g_vk'.swapchain
    /\ g_vk'.framebuffers = g_vk'.swapchain
    /\ g_vk'.screen_width \in Sizes

(* C16 as stated: vk_recreate_swapchain(w2, h2) keeps everything that does not
   depend on the swapchain and rebuilds swapchain, views, depth buffer and
   framebuffers with the extent (w2, h2). *)
C16_RecreateForRequestedSize ==
    [][Recreated =>
          /\ RecreateKeeps
          /\ RecreateRebuilds
          /\ g_vk'.swapchain_extent = g_vk'.screen_width]_vars

(* C16, amended: vk_recreate_swapchain(w2, h2) keeps everything that does not
   depend on the swapchain and rebuilds swapchain, views, depth buffer and
   framebuffers; the new extent is the one the surface reports, and (w2, h2)
   only when the surface reports none. *)
C16_RecreateKeepsTheRest ==
    [][Recreated =>
          /\ RecreateKeeps
          /\ RecreateRebuilds
          /\ g_vk'.swapchain_extent =
                IF surface_extent # UINT32_MAX
                THEN surface_extent
                ELSE g_vk'.screen_width]_vars

(* the swapchain was recreated for a new window size with a texture alive and
   a draw recorded in the open frame; the surface dictated another extent *)
C16_Witness ==
    /\ g_vk.initialized
    /\ g_vk.swapchain > 1
    /\ calls # <<>>
    /\ calls[1] = WaitIdle
    /\ g_vk.frame_started
    /\ Frame.vertex_offset > 0
    /\ \E t \in tex_alloc : textures[t].valid
    /\ g_vk.swapchain_extent # g_vk.screen_width

-----------------------------------------------------------------------------
(* Properties of initialization and shutdown *)

(* C17: after a vk_init that failed at some step, vk_shutdown destroys every
   GPU object the earlier steps created: whenever the context is not
   initialized, a call of vk_shutdown leaves no GPU object alive. *)
C17_ShutdownAfterFailedInit ==
    (pc = "host" /\ ~g_vk.initialized) => ENABLED (gr_close /\ gpu_objects' = {})

(* the order of the steps as stated: instance, surface, physical device,
   logical device, allocator, swapchain, depth buffer, render pass,
   framebuffers, command pool, descriptor pool/layout, per-frame resources,
   pipelines, white texture *)
StatedInitOrder ==
    <<"vk_create_instance", "SDL_Vulkan_CreateSurface", "vk_select_physical_device",
      "vk_create_device", "vk_create_allocator", "vk_create_swapchain",
      "vk_create_depth_buffer", "vk_create_render_pass", "vk_create_framebuffers",
      "vk_create_command_pool", "vk_create_descriptor_pool",
      "vk_create_per_frame_resources", "vk_create_pipelines",
      "vk_create_white_texture">>

(* a step in which gr_init called vk_init *)
InitRan == g_pRebirthSDLMainWindow = 0 /\ g_pRebirthSDLMainWindow' = 1

(* the objects of the first n stated steps *)
ObjectsOfSteps(n) == UNION {StepObjects(StatedInitOrder[i]) : i \in 1 .. n}

(* C18: vk_init calls its steps in the stated order and stops at the first
   step that fails: the steps called are a prefix of the stated order; when
   vk_init ends with initialized true all fourteen were called and every
   object exists; otherwise the last step called is the failing one, nothing
   after it ran, and initialized is false.  initialized is true only after
   such a complete run. *)
C18_InitOrderStopsAtFailure ==
    /\ [][InitRan =>
            LET n == Len(calls') IN
            /\ n \in 1 .. Len(StatedInitOrder)
            /\ \A i \in 1 .. n : calls'[i] = Step(StatedInitOrder[i])
            /\ IF g_vk'.initialized
               THEN /\ n = Len(StatedInitOrder)
                    /\ gpu_objects' = ObjectsOfSteps(n)
                    /\ gr_installed' = 1
               ELSE /\ gpu_objects' = ObjectsOfSteps(n - 1)
                    /\ gr_installed' = 0]_vars
    /\ [][(~g_vk.initialized /\ g_vk'.initialized) => InitRan]_vars

(* vk_init failed at its sixth step, vk_create_swapchain: the five steps before
   it ran, none after it, and the context is not initialized *)
C18_Witness ==
    /\ ~g_vk.initialized
    /\ Len(calls) = 6
    /\ calls[6] = Step("vk_create_swapchain")
    /\ gpu_objects = {"instance", "surface", "device", "allocator"}
    /\ g_vk.swapchain = VK_NULL_HANDLE
    /\ g_vk.allocator # VK_NULL_HANDLE
    /\ gr_installed = 0

(* the stated order of destruction, by group: per-frame resources, pipelines,
   descriptor objects, framebuffers and render pass, depth resources,
   swapchain views and swapchain, allocator, device, surface, instance *)
StatedShutdownGroups ==
    <<{"vertex_buffer", "fence", "render_finished", "image_available"},
      {"pipelines"},
      {"descriptor_set_layout", "descriptor_pool"},
      {"framebuffers", "render_pass"},
      {"depth_view", "depth_image"},
      {"swapchain_views", "swapchain"},
      {"allocator"},
      {"device"},
      {"surface"},
      {"instance"}>>

StatedKinds == UNION {StatedShutdownGroups[k] : k \in 1 .. Len(StatedShutdownGroups)}

StatedGroup(kind) ==
    CHOOSE k \in 1 .. Len(StatedShutdownGroups) : kind \in StatedShutdownGroups[k]

(* <<a, b>>: object a is created from object b or refers to it, by the
   arguments of the call that creates a *)
DependsOn ==
    {<<"surface", "instance">>, <<"device", "instance">>,
     <<"allocator", "instance">>, <<"allocator", "device">>,
     <<"swapchain", "device">>, <<"swapchain", "surface">>,
     <<"swapchain_views", "swapchain">>, <<"swapchain_views", "device">>,
     <<"depth_image", "allocator">>, <<"depth_view", "depth_image">>,
     <<"depth_view", "device">>, <<"render_pass", "device">>,
     <<"framebuffers", "render_pass">>, <<"framebuffers", "swapchain_views">>,
     <<"framebuffers", "depth_view">>, <<"framebuffers", "device">>,
     <<"command_pool", "device">>, <<"descriptor_pool", "device">>,
     <<"descriptor_set_layout", "device">>,
     <<"vertex_buffer", "allocator">>, <<"fence", "device">>,
     <<"render_finished", "device">>, <<"image_available", "device">>,
     <<"pipelines", "device">>,
     <<"white_texture", "descriptor_pool">>, <<"white_texture", "allocator">>,
     <<"white_texture", "device">>}

(* a step in which vk_shutdown ran on an initialized context *)
ShutdownRan == g_vk.initialized /\ ~g_vk'.initialized

(* C19: vk_shutdown waits for the device to be idle before anything else and
   then destroys every object, group by group in the stated order; no object
   is destroyed after one it depends on. *)
C19_ShutdownOrder ==
    [][ShutdownRan =>
          /\ calls'[1] = WaitIdle
          /\ queue' = <<>>
          /\ \A i \in 2 .. Len(calls') : calls'[i].op = "destroy"
          /\ \A i \in 2 .. Len(calls'), j \in 2 .. Len(calls') :
                (i < j /\ calls'[i].obj \in StatedKinds /\ calls'[j].obj \in StatedKinds)
                    => StatedGroup(calls'[i].obj) <= StatedGroup(calls'[j].obj)
          /\ \A i \in 2 .. Len(calls'), j \in 2 .. Len(calls') :
                i < j => <<calls'[j].obj, calls'[i].obj>> \notin DependsOn
          /\ StatedKinds \subseteq Destroyed(calls')
          /\ gpu_objects \subseteq Destroyed(calls')
          /\ gpu_objects' = {}]_vars

(* vk_shutdown ran while a frame was in flight: the device was idled, the
   instance went last and no object is left *)
C19_Witness ==
    /\ ~g_vk.initialized
    /\ gr_installed = 1
    /\ Len(calls) > 1
    /\ calls[1] = WaitIdle
    /\ calls[2] = Destroy("white_texture")
    /\ calls[Len(calls)] = Destroy("instance")
    /\ gpu_objects = {}
    /\ queue = <<>>

(* vk_shutdown has run on an initialized context: gr_installed is set only
   after a vk_init that succeeded, initialized is cleared only by vk_shutdown *)
ShutDown == gr_installed = 1 /\ ~g_vk.initialized

(* what the first vk_init(window, w, h) of the program produces *)
FirstInit(w, failing) ==
    init_from(1, [g |-> [ZeroState EXCEPT !.screen_width = w],
                  objects |-> {}, calls |-> <<>>, ok |-> FALSE], failing)

(* C20: after vk_shutdown of an initialized context g_vk equals its zero state
   and nothing of the renderer is left on the device; vk_begin_frame returns
   false and changes nothing, the draw calls change nothing, a second
   vk_shutdown changes nothing, and vk_init produces what the first vk_init of
   the program produces. *)
C20_ShutdownResetsContext ==
    ShutDown =>
        /\ g_vk = ZeroState
        /\ gpu_objects = {} /\ desc_pool = {}
        /\ queue = <<>> /\ presents = <<>>
        /\ \A f \in Slots :
              /\ ~fence[f] /\ ~image_available[f] /\ ~render_finished[f]
              /\ cmd[f] = ZeroCmd /\ cmdbuf[f] = <<>> /\ ring[f] = <<>>
        /\ pc \in {"host", "begin"}
        /\ pc = "begin" =>
              \A result \in AcquireResults :
                  /\ ENABLED (vk_begin_frame(result) /\ pc' = "host")
                  /\ ~ENABLED (/\ vk_begin_frame(result)
                               /\ <<g_vk, cmd, cmdbuf, fence, calls>>' #
                                      <<g_vk, cmd, cmdbuf, fence, calls>>)
        /\ \A count \in BigCounts \cup TriCounts, textured \in BOOLEAN, is_3d \in BOOLEAN :
              ~ENABLED (/\ vk_draw_triangles("verts", count, textured, is_3d)
                        /\ DrawState' # DrawState)
        /\ \A count \in FanCounts, textured \in BOOLEAN, is_3d \in BOOLEAN :
              ~ENABLED (/\ vk_draw_triangle_fan(FanVerts(count), count, textured, is_3d)
                        /\ DrawState' # DrawState)
        /\ \A count \in BigCounts \cup LineCounts, is_3d \in BOOLEAN :
              ~ENABLED (/\ vk_draw_lines("verts", count, is_3d)
                        /\ DrawState' # DrawState)
        /\ pc = "host" =>
              /\ ENABLED gr_close
              /\ ~ENABLED (gr_close /\ vars' # vars)
              /\ \A w \in Sizes, failing \in InitSteps \cup {"none"} :
                    ENABLED (/\ vk_init(w, failing)
                             /\ g_vk' = FirstInit(w, failing).g
                             /\ gpu_objects' = FirstInit(w, failing).objects
                             /\ calls' = FirstInit(w, failing).calls
                             /\ UNCHANGED <<cmdbuf, ring, queue, textures, tex_alloc, texVars, pc,
                                            cmd, surface_extent, gr_installed,
                                            g_pRebirthSDLMainWindow>>
                             /\ UNCHANGED syncVars)

(* vk_shutdown ran on an initialized context and gr_flip is about to call
   vk_begin_frame on it *)
C20_Witness ==
    /\ ShutDown
    /\ pc = "begin"
    /\ Len(calls) > 1
    /\ calls[Len(calls)] = Destroy("instance")

(* how often call c occurs in the log cs *)
CountOf(cs, c) == Cardinality({i \in 1 .. Len(cs) : cs[i] = c})

TextureKinds == {"staging", "image", "command_buffer", "view", "sampler", "descriptor_set"}

(* a step in which vk_create_texture got as far as its first driver object and
   returned nullptr *)
CreateFailed ==
    /\ UNCHANGED <<g_vk, fence, cmdbuf, ring, queue, pc, cmd, syncVars, hostVars>>
    /\ tex_alloc' = tex_alloc
    /\ tex_calls' # <<>>
    /\ tex_calls'[1] = Create("staging")

(* a texture that vk_bind_texture takes as valid has all four handles *)
ValidIsComplete ==
    \A t \in TexIds :
        textures[t].valid =>
            /\ textures[t].image # VK_NULL_HANDLE
            /\ textures[t].view # VK_NULL_HANDLE
            /\ textures[t].sampler # VK_NULL_HANDLE
            /\ textures[t].descriptor_set # VK_NULL_HANDLE
            /\ BindTarget(t) = textures[t].descriptor_set

(* C21: when a step of vk_create_texture fails, no handle is returned, every
   driver object created up to that point (the staging buffer included) is
   released exactly once, none stays alive, and a texture that
   vk_bind_texture takes as valid always has its image, view, sampler and
   descriptor set. *)
C21_FailedCreateReleasesAll ==
    [][/\ CreateFailed =>
              /\ textures' = textures /\ tex_image' = tex_image /\ desc_pool' = desc_pool
              /\ tex_objects' = tex_objects
              /\ \A k \in TextureKinds :
                    /\ CountOf(tex_calls', Create(k)) <= 1
                    /\ CountOf(tex_calls', Destroy(k)) = CountOf(tex_calls', Create(k))
              /\ \A i \in 1 .. Len(tex_calls') :
                    tex_calls'[i].op = "destroy" =>
                        \E j \in 1 .. (i - 1) : tex_calls'[j] = Create(tex_calls'[i].obj)
       /\ ValidIsComplete']_vars

(* vk_create_texture failed at the descriptor set, after image, view and
   sampler existed, and has released them *)
C21_Witness ==
    /\ tex_alloc = {}
    /\ CountOf(tex_calls, Create("sampler")) = 1
    /\ CountOf(tex_calls, Destroy("sampler")) = 1
    /\ tex_calls[Len(tex_calls)] = Destroy("image")

(* what a texture call can change besides the log of its driver calls *)
TextureState == <<g_vk, textures, tex_alloc, desc_pool, tex_objects, tex_image>>

(* the four driver objects of a texture *)
OwnedKinds == {"image", "view", "sampler", "descriptor_set"}

(* C22: vk_destroy_texture on a valid texture releases its descriptor set,
   sampler, view and image each exactly once and leaves the record in its
   default state with valid false; on nullptr, on a destroyed texture and on a
   record that was never filled in it makes no driver call and changes
   nothing. *)
C22_DestroyIdempotent ==
    \A t \in TexIds \cup {NullTex} :
        IF t # NullTex /\ textures[t].valid
        THEN ENABLED (/\ DestroyTexture(t)
                      /\ textures'[t] = ZeroTexture
                      /\ \A k \in OwnedKinds :
                            /\ CountOf(tex_calls', Destroy(k)) =
                                  IF [kind |-> k, tex |-> t] \in tex_objects THEN 1 ELSE 0
                            /\ [kind |-> k, tex |-> t] \notin tex_objects'
                      /\ Len(tex_calls') = Cardinality({o \in tex_objects : o.tex = t})
                      /\ \A o \in tex_objects : o.tex # t => o \in tex_objects'
                      /\ tex_image'[t] = NoImage)
        ELSE (t = NullTex \/ textures[t] = ZeroTexture) =>
                /\ ENABLED (DestroyTexture(t) /\ tex_calls' = <<>>)
                /\ ~ENABLED (DestroyTexture(t) /\ TextureState' # TextureState)
                /\ ~ENABLED (DestroyTexture(t) /\ tex_calls' # <<>>)

(* a texture was created and destroyed: its record is in the default state and
   the last call released its four objects *)
C22_Witness ==
    /\ g_vk.initialized
    /\ \E t \in tex_alloc : textures[t] = ZeroTexture
    /\ Len(tex_calls) = 4
    /\ \A k \in OwnedKinds : CountOf(tex_calls, Destroy(k)) = 1
    /\ tex_objects = {}

(* the textures whose descriptor set a recorded draw binds *)
SampledBy(draw) ==
    {t \in TexIds : textures[t].valid /\ textures[t].descriptor_set = draw.ds}

(* C23: a texture that vk_create_texture returned has its upload finished (the
   image is in the shader-read layout with the staged pixels) and its staging
   buffer and one-shot command buffer released, so every recorded draw that
   binds the texture's descriptor set samples an uploaded image. *)
C23_UploadFinishedOnReturn ==
    /\ \A t \in tex_alloc :
          textures[t].valid =>
              /\ tex_image[t].layout = "shader_read"
              /\ [kind |-> "staging", tex |-> t] \notin tex_objects
              /\ [kind |-> "command_buffer", tex |-> t] \notin tex_objects
    /\ \A f \in Slots : \A i \in 1 .. Len(cmdbuf[f]) :
          \A t \in SampledBy(cmdbuf[f][i]) : tex_image[t].layout = "shader_read"

(* the stated table: kind of primitive, textured, is_3d -> pipeline *)
StatedPipe(kind, textured, is_3d) ==
    CASE kind = "line" /\ is_3d -> VK_PIPE_LINE_3D
      [] kind = "line" /\ ~is_3d -> VK_PIPE_LINE_2D
      [] kind = "triangle" /\ textured /\ is_3d -> VK_PIPE_TEXTURED_3D
      [] kind = "triangle" /\ textured /\ ~is_3d -> VK_PIPE_TEXTURED_2D
      [] kind = "triangle" /\ ~textured /\ is_3d -> VK_PIPE_FLAT_3D
      [] kind = "triangle" /\ ~textured /\ ~is_3d -> VK_PIPE_FLAT_2D

(* the selection keys: lines have no textured variant *)
PipeKeys ==
    {k \in [kind : {"triangle", "line"}, textured : BOOLEAN, is_3d : BOOLEAN,
            blend : 0 .. (VK_BLEND_COUNT - 1)] : k.kind = "line" => ~k.textured}

(* the entry of g_vk.pipelines a key selects *)
TableEntry(k) ==
    <<IF k.kind = "line" THEN LinePipe(k.is_3d) ELSE TrianglePipe(k.textured, k.is_3d),
      k.blend>>

(* the draw just recorded in the open frame selects pipelines[pipe][blend] *)
Selected(pipe, blend) ==
    LET f == g_vk.current_frame IN
    /\ Len(cmdbuf'[f]) = Len(cmdbuf[f]) + 1
    /\ LastOf(cmdbuf'[f]).pipe = pipe
    /\ LastOf(cmdbuf'[f]).blend = blend

(* C24: every emitted draw selects pipelines[p][b], where p is given by the
   stated table from the kind of primitive, textured and is_3d, and b is the
   blend mode current at the call; p is below 6 and b below 3, and two
   different keys never select the same entry. *)
C24_PipelineSelection ==
    /\ g_vk.current_blend \in 0 .. (VK_BLEND_COUNT - 1)
    /\ g_vk.frame_started =>
          /\ \A textured \in BOOLEAN, is_3d \in BOOLEAN :
                /\ ENABLED (/\ vk_draw_triangles("verts", 3, textured, is_3d)
                            /\ Selected(StatedPipe("triangle", textured, is_3d),
                                        g_vk.current_blend))
                /\ ENABLED (/\ vk_draw_triangle_fan(FanVerts(4), 4, textured, is_3d)
                            /\ Selected(StatedPipe("triangle", textured, is_3d),
                                        g_vk.current_blend))
          /\ \A is_3d \in BOOLEAN :
                ENABLED (/\ vk_draw_lines("verts", 2, is_3d)
                         /\ Selected(StatedPipe("line", FALSE, is_3d), g_vk.current_blend))
    /\ \A f \in Slots : \A i \in 1 .. Len(cmdbuf[f]) :
          /\ cmdbuf[f][i].pipe \in 0 .. (VK_PIPE_COUNT - 1)
          /\ cmdbuf[f][i].blend \in 0 .. (VK_BLEND_COUNT - 1)
    /\ \A k1 \in PipeKeys, k2 \in PipeKeys : k1 # k2 => TableEntry(k1) # TableEntry(k2)
    /\ \A k \in PipeKeys : TableEntry(k)[1] = StatedPipe(k.kind, k.textured, k.is_3d)

(* a frame is open under the second additive blend and a 2D line drawn in it
   was recorded with that blend *)
C24_Witness ==
    /\ g_vk.frame_started
    /\ pc = "host"
    /\ g_vk.current_blend = VK_BLEND_ADDITIVE_C
    /\ \E i \in 1 .. Len(cmdbuf[g_vk.current_frame]) :
          /\ cmdbuf[g_vk.current_frame][i].pipe = VK_PIPE_LINE_2D
          /\ cmdbuf[g_vk.current_frame][i].blend = VK_BLEND_ADDITIVE_C

(* the bound descriptor set is that of a valid 64 x 64 texture *)
QuadTextureBound ==
    \E t \in TexIds :
        /\ textures[t].valid
        /\ textures[t].w = QuadTexture.w /\ textures[t].h = QuadTexture.h
        /\ g_vk.bound_texture = textures[t].descriptor_set
        /\ g_vk.bound_texture # g_vk.white_texture.descriptor_set

(* the frame's log after the flat 3D quad alone *)
AfterFlatQuad ==
    LET log == cmdbuf[g_vk.current_frame] IN
    /\ Len(log) = 1
    /\ log[1].pipe = VK_PIPE_FLAT_3D /\ log[1].blend = VK_BLEND_NORMAL
    /\ log[1].count = 6 /\ log[1].offset = 0
    /\ Frame.vertex_offset = 216

(* the frame's log after the flat 3D quad and the textured 2D quad *)
AfterBothQuads ==
    LET log == cmdbuf[g_vk.current_frame] IN
    /\ Len(log) = 2
    /\ log[1].pipe = VK_PIPE_FLAT_3D /\ log[1].blend = VK_BLEND_NORMAL
    /\ log[1].count = 6 /\ log[1].offset = 0
    /\ log[2].pipe = VK_PIPE_TEXTURED_2D /\ log[2].blend = VK_BLEND_NORMAL
    /\ log[2].count = 6 /\ log[2].offset = 216
    /\ Frame.vertex_offset = 432

(* C25: in an open frame with nothing drawn yet and normal blend, a flat 3D
   fan of 4 vertices followed by a textured 2D fan of 4 vertices with a bound
   64 x 64 texture records exactly two draws, flat-3D then textured-2D, both
   with normal blend and 6 vertices, and advances the vertex cursor by 432
   bytes in total (216 after the first). *)
C25_TwoQuads ==
    [][/\ (/\ g_vk.frame_started /\ g_vk.current_blend = VK_BLEND_NORMAL
           /\ cmdbuf[g_vk.current_frame] = <<>> /\ Frame.vertex_offset = 0
           /\ DrawQuad(FALSE, TRUE))
          => AfterFlatQuad'
       /\ (/\ g_vk.frame_started /\ g_vk.current_blend = VK_BLEND_NORMAL
           /\ AfterFlatQuad /\ QuadTextureBound
           /\ DrawQuad(TRUE, FALSE))
          => (AfterBothQuads' /\ cmdbuf'[g_vk.current_frame][2].ds = g_vk.bound_texture)]_vars

(* both quads are in the log of the open frame and the texture is bound *)
C25_Witness ==
    /\ g_vk.frame_started /\ pc = "host"
    /\ QuadTextureBound
    /\ AfterBothQuads
    /\ cmdbuf[g_vk.current_frame][2].ds = g_vk.bound_texture

(* the exponent k of the smallest power of two 2^k that is not below the
   value with one bits S, S not empty *)
CeilLog2(S) ==
    LET top == CHOOSE x \in S : \A y \in S : x >= y
    IN  IF S = {top} THEN top ELSE top + 1

(* dimensions 1 .. 2^31 given by their one bits: up to two bits, and the
   values just below a power of two *)
DimensionBits ==
    {{a, b} : a \in 0 .. 30, b \in 0 .. 30} \cup {{31}} \cup {0 .. k : k \in 0 .. 30}

(* the image of texture t holds the source in its top-left w x h region and
   zero everywhere else *)
PaddedImage(t) ==
    \A p \in DOMAIN tex_image[t].pixels :
        tex_image[t].pixels[p] =
            IF p[1] < textures[t].w /\ p[2] < textures[t].h THEN p ELSE ZeroPixel

(* C26: every dimension from 1 to 2^31 is padded to the smallest power of two
   not below it, in 32-bit unsigned arithmetic, and the uploaded tw x th image
   of every texture holds the source pixels in its top-left w x h region and
   zero bytes everywhere else. *)
C26_PaddedUpload ==
    /\ \A S \in DimensionBits : next_power_of_two(S) = {CeilLog2(S)}
    /\ \A t \in tex_alloc :
          textures[t].valid /\ tex_image[t].layout = "shader_read" =>
              /\ textures[t].tw = 2 ^ CeilLog2(Bits32(textures[t].w))
              /\ textures[t].th = 2 ^ CeilLog2(Bits32(textures[t].h))
              /\ PaddedImage(t)

(* the combined transform is the product of the two inputs *)
MvpIsProduct ==
    g_vk.mvp_matrix = vk_mat4_multiply(g_vk.projection_matrix, g_vk.modelview_matrix)

(* a step that records a draw in the open frame *)
DrawEmitted ==
    /\ g_vk.frame_started
    /\ g_vk'.current_frame = g_vk.current_frame
    /\ Len(cmdbuf'[g_vk.current_frame]) = Len(cmdbuf[g_vk.current_frame]) + 1

(* C27: mvp_matrix equals multiply(projection_matrix, modelview_matrix) in
   every state (after init, after the start and after the end of the 3D pass),
   and the push constants of every recorded draw carry the mvp_matrix that was
   current at the draw call. *)
C27_MvpIsProduct ==
    /\ []MvpIsProduct
    /\ [][DrawEmitted =>
            /\ LastOf(cmdbuf'[g_vk.current_frame]).mvp = g_vk.mvp_matrix
            /\ LastOf(cmdbuf'[g_vk.current_frame]).mvp =
                   vk_mat4_multiply(g_vk.projection_matrix, g_vk.modelview_matrix)]_vars

(* a draw recorded under the perspective transform is in the log of the open
   frame while the orthographic transform is current *)
C27_Witness ==
    /\ g_vk.frame_started /\ pc = "host"
    /\ ~g_vk.is_3d_mode
    /\ g_vk.mvp_matrix = vk_mat4_ortho(Num(0), Num(1), Num(0), Num(1), Num(-1), Num(1))
    /\ g_vk.mvp_matrix # vk_mat4_identity
    /\ \E i \in 1 .. Len(cmdbuf[g_vk.current_frame]) :
          /\ cmdbuf[g_vk.current_frame][i].mvp =
                vk_mat4_perspective(Num(1), <<1, 10>>, Num(5000))
          /\ cmdbuf[g_vk.current_frame][i].mvp # g_vk.mvp_matrix

(* a step of vk_present: it alone hands a request to the presentation engine *)
Presented == Len(presents') = Len(presents) + 1

(* C28: every call of vk_present advances the current frame index by exactly
   one modulo 2 and presents the slot that was current; the index is always 0
   or 1, nothing but vk_present (and the reset of vk_shutdown, to 0) changes
   it, and consecutive present requests name alternating slots. *)
C28_FrameIndexAlternates ==
    /\ [](/\ g_vk.current_frame \in {0, 1}
          /\ \A i \in 1 .. (Len(presents) - 1) : presents[i + 1].slot = 1 - presents[i].slot
          /\ presents # <<>> => LastOf(presents).slot = 1 - g_vk.current_frame)
    /\ [][/\ Presented =>
               /\ g_vk'.current_frame = (g_vk.current_frame + 1) % 2
               /\ LastOf(presents').slot = g_vk.current_frame
          /\ g_vk'.current_frame # g_vk.current_frame =>
               \/ Presented
               \/ (g_vk.initialized /\ ~g_vk'.initialized /\ g_vk'.current_frame = 0)]_vars

(* two frames are waiting to be presented, one per slot, and the index has
   wrapped around to slot 0 *)
C28_Witness ==
    /\ Len(presents) >= 2
    /\ presents[Len(presents) - 1].slot = 0
    /\ LastOf(presents).slot = 1
    /\ g_vk.current_frame = 0
    /\ g_vk.initialized

(* C29: a frame that was open when gr_set_mode recreated the swapchain is
   never handed to vk_present with its render pass begun on framebuffers that
   the recreation destroyed: at every vk_present the command buffer of the
   current slot renders to a framebuffer of the current swapchain. *)
C29_OpenFrameSurvivesResize ==
    [][Presented => cmd[g_vk.current_frame].framebuffer = g_vk.framebuffers]_vars

(* the objects that depend on the swapchain *)
SwapchainKinds ==
    {"depth_image", "depth_view", "framebuffers", "swapchain_views", "swapchain"}

(* the objects alive before the i-th call of cs, starting from objs; the new
   swapchain is created before the old one is destroyed, so a destroy of the
   swapchain that follows a create in cs leaves one alive *)
RECURSIVE LiveBefore(_, _, _)
LiveBefore(objs, cs, i) ==
    IF i <= 1
    THEN objs
    ELSE LET before == LiveBefore(objs, cs, i - 1)
             call == cs[i - 1]
         IN  CASE call.op = "create" -> before \cup {call.obj}
               [] call.op = "destroy" /\ call.obj = "swapchain"
                  /\ \E j \in 1 .. (i - 2) : cs[j] = Create("swapchain") -> before
               [] call.op = "destroy" -> before \ {call.obj}
               [] OTHER -> before

(* a step of vk_init, vk_recreate_swapchain or vk_shutdown called by the host *)
LifecycleStep ==
    \/ \E w \in Sizes, failing \in InitSteps \cup {"none"} : gr_init(w, failing)
    \/ \E w \in Sizes, failing \in RecreateSteps \cup {"none"} : gr_set_mode(w, failing)
    \/ gr_close

(* C30: across any sequence of init, recreate_swapchain (also one that fails
   part-way) and shutdown, no depth image, depth view, framebuffer, swapchain
   image view or swapchain is destroyed more than once: every destroy call for
   one of them is made while the object is alive. *)
C30_NoDoubleDestroy ==
    [][LifecycleStep =>
          \A i \in 1 .. Len(calls') :
              (calls'[i].op = "destroy" /\ calls'[i].obj \in SwapchainKinds)
                  => calls'[i].obj \in LiveBefore(gpu_objects, calls', i)]_vars

(* C31: whenever vk_begin_frame begins the render pass, the framebuffers are
   those of the swapchain the image index was acquired from (so the index is
   below their number) and the selected framebuffer is alive; also when the
   begin follows a vk_recreate_swapchain that returned false. *)
C31_BeginOnLiveFramebuffer ==
    [][BeginSucceeded =>
          /\ g_vk.framebuffers # VK_NULL_HANDLE
          /\ g_vk.framebuffers = g_vk.swapchain
          /\ "framebuffers" \in gpu_objects]_vars

(* C32: the fences are created signaled, and with a GPU that completes every
   submitted frame and an acquisition that eventually succeeds, every
   vk_begin_frame reached in a sequence of gr_flip calls eventually returns. *)
C32_BeginFrameTerminates == AtFenceWait ~> ~AtFenceWait

(* the valid textures, the white fallback included *)
ValidTextures ==
    Cardinality({t \in TexIds : textures[t].valid})
        + (IF g_vk.white_texture.valid THEN 1 ELSE 0)

(* a vk_create_texture step made with every descriptor set of the pool taken,
   that got as far as its first driver object *)
CreateOnFullPool ==
    /\ AllocateResult # "VK_SUCCESS"
    /\ g_vk' = g_vk
    /\ tex_calls' # <<>>
    /\ tex_calls'[1] = Create("staging")

(* a vk_destroy_texture step on a valid texture *)
DestroyOfValid(t) == textures[t].valid /\ ~textures'[t].valid /\ g_vk.initialized

(* C33: the descriptor sets allocated from the pool are as many as the valid
   textures, the white fallback included, and never more than the pool holds;
   a create attempted on an exhausted pool returns no texture and leaves no
   image, view or sampler allocated; a destroy gives its descriptor set back,
   so that a later create can allocate one. *)
C33_DescriptorAccounting ==
    /\ [](/\ Cardinality(desc_pool) = ValidTextures
          /\ Cardinality(desc_pool) <= Cardinality(DescIds)
          /\ \A t \in TexIds : textures[t].valid => textures[t].descriptor_set \in desc_pool)
    /\ [][CreateOnFullPool =>
            /\ textures' = textures /\ desc_pool' = desc_pool
            /\ tex_objects' = tex_objects
            /\ CountOf(tex_calls', Create("descriptor_set")) = 0]_vars
    /\ [][\A t \in TexIds : DestroyOfValid(t) =>
            /\ textures[t].descriptor_set \notin desc_pool'
            /\ AllocateResult' = "VK_SUCCESS"]_vars

(* the pool is exhausted and the last create attempt was turned away at the
   descriptor set, after image, view and sampler had been created and released *)
C33_Witness ==
    /\ AllocateResult # "VK_SUCCESS"
    /\ tex_calls # <<>>
    /\ LastOf(tex_calls) = Destroy("image")
    /\ CountOf(tex_calls, Create("sampler")) = 1
    /\ \A t \in TexIds : textures[t].valid


(* Vertex regions of one frame *)

RECURSIVE SizeBefore(_, _)
(* the bytes of the first k - 1 draws of a log *)
SizeBefore(log, k) ==
    IF k <= 1 THEN 0 ELSE SizeBefore(log, k - 1) + sizeof_vk_vertex * log[k - 1].count

(* the region [from, to) of the k-th draw of a log *)
Region(log, k) ==
    [from |-> log[k].offset, to |-> log[k].offset + sizeof_vk_vertex * log[k].count]

(* the draws of a slot's frame lie one after the other from offset 0 on, and
   the vertices copied for the k-th draw lie in its region *)
Contiguous(f) ==
    LET log == cmdbuf[f]
    IN  /\ \A k \in 1 .. Len(log) :
              /\ log[k].offset = SizeBefore(log, k)
              /\ Region(log, k).to <= VK_VERTEX_RING_SIZE
        /\ \A j, k \in 1 .. Len(log) :
              j < k => Region(log, j).to <= Region(log, k).from
        /\ log # <<>> =>
              /\ Len(ring[f]) = Len(log)
              /\ \A k \in 1 .. Len(log) :
                    /\ ring[f][k].off = Region(log, k).from
                    /\ ring[f][k].off + ring[f][k].len = Region(log, k).to

(* a step that leaves the log of the open frame as it was *)
NothingEmitted ==
    /\ g_vk.frame_started
    /\ g_vk'.frame_started
    /\ g_vk'.current_frame = g_vk.current_frame
    /\ cmdbuf' = cmdbuf

(* C34: within one frame the vertex regions of the emitted draws are pairwise
   disjoint and contiguous in call order: the k-th emitted draw occupies
   [offset_k, offset_k + 36 * count_k), offset_k being the sum of the sizes of
   the earlier emitted draws of that frame, and the cursor of the open frame
   stands at the end of the last region; a dropped draw occupies nothing
   (ring and cursor as before); and whatever was dropped before, a draw that
   fits behind the cursor is emitted. *)
C34_RegionsContiguous ==
    /\ [](\A f \in Slots : Contiguous(f))
    /\ [](g_vk.frame_started =>
            Frame.vertex_offset =
                SizeBefore(cmdbuf[g_vk.current_frame], Len(cmdbuf[g_vk.current_frame]) + 1))
    /\ [][NothingEmitted => (ring' = ring /\ g_vk'.frames = g_vk.frames)]_vars
    /\ [](g_vk.frame_started =>
            \A count \in BigCounts \ {0} :
                Frame.vertex_offset + sizeof_vk_vertex * count <= VK_VERTEX_RING_SIZE
                    => ENABLED (/\ vk_draw_triangles("verts", count, TRUE, TRUE)
                                /\ Emitted(count)))

(* an open frame holding two draws, the second one starting where the first
   one ends, with the ring too full for a draw of FitCount vertices *)
C34_Witness ==
    /\ pc = "host"
    /\ g_vk.frame_started
    /\ Len(cmdbuf[g_vk.current_frame]) = 2
    /\ cmdbuf[g_vk.current_frame][1].offset = 0
    /\ cmdbuf[g_vk.current_frame][2].offset =
            sizeof_vk_vertex * cmdbuf[g_vk.current_frame][1].count
    /\ cmdbuf[g_vk.current_frame][2].offset > 0
    /\ Frame.vertex_offset = 2 * (FitCount \div 2) * sizeof_vk_vertex


(* Blend state *)

(* the blend mode stated for each gr_blend value *)
StatedBlend(b) ==
    IF b = "additive_a" THEN VK_BLEND_ADDITIVE_A
    ELSE IF b = "additive_c" THEN VK_BLEND_ADDITIVE_C
    ELSE VK_BLEND_NORMAL

(* the columns of the pipeline table *)
BlendColumns == {VK_BLEND_NORMAL, VK_BLEND_ADDITIVE_A, VK_BLEND_ADDITIVE_C}

(* C35: ogl_set_blending maps additive_a to the additive-alpha mode,
   additive_c to the additive-colour mode and every other value to the
   normal mode; ogl_start_frame sets the 3D mode and the normal blend;
   ogl_end_frame sets the 2D mode and leaves the blend as it was; the current
   blend is always one of the three columns of the pipeline table. *)
C35_BlendState ==
    /\ [](g_vk.current_blend \in BlendColumns)
    /\ [][\A b \in BlendFuncs :
            SetBlending(b) => /\ g_vk'.current_blend = StatedBlend(b)
                              /\ g_vk'.is_3d_mode = g_vk.is_3d_mode]_vars
    /\ [][StartPass => /\ g_vk'.is_3d_mode
                       /\ g_vk'.current_blend = VK_BLEND_NORMAL]_vars
    /\ [][EndPass => /\ ~g_vk'.is_3d_mode
                     /\ g_vk'.current_blend = g_vk.current_blend]_vars

(* the 2D pass was started under the additive-colour blend, which is still
   current in the open frame *)
C35_Witness ==
    /\ pc = "host"
    /\ g_vk.frame_started
    /\ ~g_vk.is_3d_mode
    /\ g_vk.projection_matrix =
          vk_mat4_ortho(Num(0), Num(1), Num(0), Num(1), Num(-1), Num(1))
    /\ g_vk.current_blend = VK_BLEND_ADDITIVE_C


-----------------------------------------------------------------------------
(* Touch overlay: src/common/arch/sdl/touch.cpp *)

(* the event send_key_event pushes *)
KeyEvent(scancode, pressed) ==
    [type |-> IF pressed THEN "SDL_KEYDOWN" ELSE "SDL_KEYUP", scancode |-> scancode]

(* if (cond) send_key_event(scancode, pressed) *)
SendIf(cond, scancode, pressed) ==
    IF cond THEN <<KeyEvent(scancode, pressed)>> ELSE <<>>

RECURSIVE KeysAfter(_, _)
(* the keys held once the application has read the pushed events *)
KeysAfter(held, events) ==
    IF events = <<>>
    THEN held
    ELSE KeysAfter(IF Head(events).type = "SDL_KEYDOWN"
                   THEN held \cup {Head(events).scancode}
                   ELSE held \ {Head(events).scancode},
                   Tail(events))

(* faulty variant: a key event is sent for every direction on every update *)
update_stick_keys_always(stick, want) ==
    [stick |-> [stick EXCEPT !.key_left = want.left, !.key_right = want.right,
                             !.key_up = want.up, !.key_down = want.down],
     events |-> <<KeyEvent(stick.sc_left, want.left), KeyEvent(stick.sc_right, want.right),
                  KeyEvent(stick.sc_up, want.up), KeyEvent(stick.sc_down, want.down)>>]

(* update_stick_keys, given the four want_ flags: the stick afterwards and the
   events sent, in the order left, right, up, down *)
update_stick_keys(stick, want) ==
    [stick |-> [stick EXCEPT !.key_left = want.left, !.key_right = want.right,
                             !.key_up = want.up, !.key_down = want.down],
     events |-> SendIf(want.left # stick.key_left, stick.sc_left, want.left)
                \o SendIf(want.right # stick.key_right, stick.sc_right, want.right)
                \o SendIf(want.up # stick.key_up, stick.sc_up, want.up)
                \o SendIf(want.down # stick.key_down, stick.sc_down, want.down)]

release_all_stick_keys(stick) ==
    [stick |-> [stick EXCEPT !.key_left = FALSE, !.key_right = FALSE,
                             !.key_up = FALSE, !.key_down = FALSE],
     events |-> SendIf(stick.key_left, stick.sc_left, FALSE)
                \o SendIf(stick.key_right, stick.sc_right, FALSE)
                \o SendIf(stick.key_up, stick.sc_up, FALSE)
                \o SendIf(stick.key_down, stick.sc_down, FALSE)]

(* the deflection a / r, clamped to the unit circle when the distance
   sqrt(a*a + b*b) / r exceeds 1, is below -threshold *)
BelowThreshold(a, b, r) ==
    IF a * a + b * b > r * r
    THEN /\ a < 0
         /\ threshold.den * threshold.den * a * a
                > threshold.num * threshold.num * (a * a + b * b)
    ELSE threshold.den * a < (0 - threshold.num) * r

(* compute_stick_deflection: ddx = (fx - center_x) / (radius / aspect_ratio) and
   ddy = (fy - center_y) / radius, both over the common denominator
   radius * height; dx and dy themselves only feed the drawing *)
compute_stick_deflection(stick, fx, fy) ==
    LET a == (fx - stick.center_x) * aspect_ratio[1]
        b == (fy - stick.center_y) * aspect_ratio[2]
        r == StickRadius * aspect_ratio[2]
    IN  update_stick_keys(stick, [left  |-> BelowThreshold(a, b, r),
                                  right |-> BelowThreshold(0 - a, b, r),
                                  up    |-> BelowThreshold(b, a, r),
                                  down  |-> BelowThreshold(0 - b, a, r)])

(* faulty variant: the zone is taken over the whole screen width *)
in_fire_zone_wholeWidth(fx, fy) == fx - fy > 0

(* in_fire_zone: rx = (fx - 0.5f) * 2.0f; return (rx - fy) > 0.0f *)
in_fire_zone(fx, fy) ==
    LET rx == (fx - HalfScreen) * 2
    IN  rx - fy > 0

update_fire_state(stick, fx, fy) ==
    LET want_fire == in_fire_zone(fx, fy)
    IN  IF want_fire # stick.firing
        THEN [stick |-> [stick EXCEPT !.firing = want_fire],
              events |-> <<KeyEvent(SDL_SCANCODE_LCTRL, want_fire)>>]
        ELSE [stick |-> stick, events |-> <<>>]

(* fx >= z.x && fx <= z.x + z.w && fy >= z.y && fy <= z.y + z.h *)
InZone(z, fx, fy) ==
    /\ fx >= z.x
    /\ fx <= z.x + z.w
    /\ fy >= z.y
    /\ fy <= z.y + z.h

(* faulty variant: the sticks are tried before the buttons *)
HitButton_afterSticks(fx, fy) == BTN_COUNT

(* the first button of the loop whose rectangle holds the touch, BTN_COUNT if
   the loop runs to its end *)
HitButton(fx, fy) ==
    LET hit == {i \in ButtonIds : InZone(button_zone[i], fx, fy)}
    IN  IF hit = {} THEN BTN_COUNT ELSE CHOOSE i \in hit : \A j \in hit : i <= j

(* the first pressed button of the loop that finger fid holds *)
HeldButton(fid) ==
    LET held == {i \in ButtonIds : buttons[i].pressed /\ buttons[i].finger_id = fid}
    IN  IF held = {} THEN BTN_COUNT ELSE CHOOSE i \in held : \A j \in held : i <= j

(* what one call of touch_overlay_handle_event leaves behind *)
Outcome(l, r, b, v, events, ret) ==
    [left_stick |-> l, right_stick |-> r, buttons |-> b, controls_visible |-> v,
     events |-> events, ret |-> ret]

(* the call changes nothing and returns ret *)
Ignored(ret) ==
    Outcome(left_stick, right_stick, buttons, controls_visible, <<>>, ret)

(* case SDL_FINGERDOWN *)
OnFingerDown(fx, fy, fid) ==
    IF InZone(toggle_button, fx, fy)
    THEN Outcome(left_stick, right_stick, buttons, ~controls_visible, <<>>, 1)
    ELSE IF ~controls_visible
    THEN Ignored(0)
    ELSE IF HitButton(fx, fy) # BTN_COUNT
    THEN LET i == HitButton(fx, fy)
         IN  IF ~buttons[i].pressed
             THEN Outcome(left_stick, right_stick,
                          [buttons EXCEPT ![i] = [pressed |-> TRUE, finger_id |-> fid]],
                          controls_visible,
                          <<KeyEvent(button_scancodes[i], TRUE)>>, 1)
             ELSE Ignored(1)
    ELSE IF fx < HalfScreen /\ ~left_stick.active
    THEN Outcome([left_stick EXCEPT !.active = TRUE, !.finger_id = fid,
                                    !.center_x = fx, !.center_y = fy],
                 right_stick, buttons, controls_visible, <<>>, 1)
    ELSE IF fx >= HalfScreen /\ ~right_stick.active
    THEN LET fire == update_fire_state(
                        [right_stick EXCEPT !.active = TRUE, !.finger_id = fid,
                                            !.center_x = fx, !.center_y = fy,
                                            !.firing = FALSE],
                        fx, fy)
         IN  Outcome(left_stick, fire.stick, buttons, controls_visible, fire.events, 1)
    ELSE Ignored(0)

(* case SDL_FINGERMOTION *)
OnFingerMotion(fx, fy, fid) ==
    IF left_stick.active /\ left_stick.finger_id = fid
    THEN LET moved == compute_stick_deflection(left_stick, fx, fy)
         IN  Outcome(moved.stick, right_stick, buttons, controls_visible, moved.events, 1)
    ELSE IF right_stick.active /\ right_stick.finger_id = fid
    THEN LET moved == compute_stick_deflection(right_stick, fx, fy)
             fire == update_fire_state(moved.stick, fx, fy)
         IN  Outcome(left_stick, fire.stick, buttons, controls_visible,
                     moved.events \o fire.events, 1)
    ELSE Ignored(0)

(* case SDL_FINGERUP *)
OnFingerUp(fid) ==
    IF left_stick.active /\ left_stick.finger_id = fid
    THEN LET released == release_all_stick_keys([left_stick EXCEPT !.active = FALSE])
         IN  Outcome(released.stick, right_stick, buttons, controls_visible,
                     released.events, 1)
    ELSE IF right_stick.active /\ right_stick.finger_id = fid
    THEN LET released == release_all_stick_keys([right_stick EXCEPT !.active = FALSE])
         IN  Outcome(left_stick, [released.stick EXCEPT !.firing = FALSE], buttons,
                     controls_visible,
                     released.events
                        \o SendIf(right_stick.firing, SDL_SCANCODE_LCTRL, FALSE), 1)
    ELSE IF HeldButton(fid) # BTN_COUNT
    THEN Outcome(left_stick, right_stick,
                 [buttons EXCEPT ![HeldButton(fid)].pressed = FALSE], controls_visible,
                 <<KeyEvent(button_scancodes[HeldButton(fid)], FALSE)>>, 1)
    ELSE Ignored(0)

(* the body of touch_overlay_handle_event *)
HandledEvent(event) ==
    IF ~overlay_enabled \/ ~overlay_initialized
    THEN Ignored(0)
    ELSE CASE event.type = "SDL_FINGERDOWN" ->
                OnFingerDown(event.x, event.y, event.fingerId)
           [] event.type = "SDL_FINGERMOTION" ->
                OnFingerMotion(event.x, event.y, event.fingerId)
           [] event.type = "SDL_FINGERUP" -> OnFingerUp(event.fingerId)
           [] OTHER -> Ignored(0)

touch_overlay_handle_event(event) ==
    LET out == HandledEvent(event)
    IN  /\ left_stick' = out.left_stick
        /\ right_stick' = out.right_stick
        /\ buttons' = out.buttons
        /\ controls_visible' = out.controls_visible
        /\ keys' = KeysAfter(keys, out.events)
        /\ UNCHANGED <<overlay_enabled, overlay_initialized, aspect_ratio>>

(* the stick touch_overlay_init sets up *)
InitStick(up, down, left, right) ==
    [ZeroStick EXCEPT !.sc_up = up, !.sc_down = down, !.sc_left = left, !.sc_right = right]

touch_overlay_init(w, h) ==
    /\ aspect_ratio' = <<w, h>>
    /\ left_stick' = InitStick("W", "S", "A", "D")
    /\ right_stick' = InitStick("UP", "DOWN", "LEFT", "RIGHT")
    /\ buttons' = [i \in ButtonIds |-> [pressed |-> FALSE, finger_id |-> NoFinger]]
    /\ controls_visible' = TRUE
    /\ overlay_initialized' = TRUE
    /\ UNCHANGED <<overlay_enabled, keys>>

RECURSIVE ButtonRelease(_)
(* the button loop of touch_overlay_shutdown, from button i on *)
ButtonRelease(i) ==
    IF i >= BTN_COUNT
    THEN <<>>
    ELSE SendIf(buttons[i].pressed, button_scancodes[i], FALSE) \o ButtonRelease(i + 1)

(* faulty variant: the buttons are not released *)
ShutdownEvents_noButtons ==
    release_all_stick_keys(left_stick).events
        \o release_all_stick_keys(right_stick).events
        \o SendIf(right_stick.firing, SDL_SCANCODE_LCTRL, FALSE)

(* the key events of touch_overlay_shutdown, in order *)
ShutdownEvents ==
    release_all_stick_keys(left_stick).events
        \o release_all_stick_keys(right_stick).events
        \o SendIf(right_stick.firing, SDL_SCANCODE_LCTRL, FALSE)
        \o ButtonRelease(0)

touch_overlay_shutdown ==
    IF ~overlay_initialized
    THEN UNCHANGED <<left_stick, right_stick, buttons, overlay_initialized, keys,
                     overlay_enabled, controls_visible, aspect_ratio>>
    ELSE /\ left_stick' = release_all_stick_keys(left_stick).stick
         /\ right_stick' = [release_all_stick_keys(right_stick).stick EXCEPT !.firing = FALSE]
         /\ buttons' = [i \in ButtonIds |-> [buttons[i] EXCEPT !.pressed = FALSE]]
         /\ overlay_initialized' = FALSE
         /\ keys' = KeysAfter(keys, ShutdownEvents)
         /\ UNCHANGED <<overlay_enabled, controls_visible, aspect_ratio>>

touch_overlay_set_enabled(enabled) ==
    /\ overlay_enabled' = enabled
    /\ UNCHANGED <<left_stick, right_stick, buttons, overlay_initialized,
                   controls_visible, aspect_ratio, keys>>

(* The screen and the fingers *)

(* the screen sizes touch_overlay_init is called with, reduced to w : h *)
ScreenSizes == {<<16, 9>>}

Point(x, y) == [x |-> x, y |-> y]

(* where fingers touch: the toggle button, the Bomb button (which lies across
   the middle of the screen), two points of the left half, and in the right
   half one point on the middle line below the diagonal and one in the fire
   zone *)
TouchPoints ==
    {Point(22, 4), Point(50, 5),
     Point(25, 50), Point(10, 50),
     Point(50, 60), Point(90, 30)}

FingerEvent(type, fid, p) == [type |-> type, x |-> p.x, y |-> p.y, fingerId |-> fid]

(* a finger comes down at p *)
FingerDown(fid, p) ==
    /\ fingers[fid] = Lifted
    /\ fingers' = [fingers EXCEPT ![fid] = p]
    /\ touch_overlay_handle_event(FingerEvent("SDL_FINGERDOWN", fid, p))
    /\ UNCHANGED renderVars

(* a finger on the screen moves to p *)
FingerMotion(fid, p) ==
    /\ fingers[fid] # Lifted
    /\ fingers[fid] # p
    /\ fingers' = [fingers EXCEPT ![fid] = p]
    /\ touch_overlay_handle_event(FingerEvent("SDL_FINGERMOTION", fid, p))
    /\ UNCHANGED renderVars

(* a finger is lifted *)
FingerUp(fid) ==
    /\ fingers[fid] # Lifted
    /\ fingers' = [fingers EXCEPT ![fid] = Lifted]
    /\ touch_overlay_handle_event(FingerEvent("SDL_FINGERUP", fid, fingers[fid]))
    /\ UNCHANGED renderVars

(* the host sets the overlay up *)
TouchInit(size) ==
    /\ touch_overlay_init(size[1], size[2])
    /\ UNCHANGED fingers
    /\ UNCHANGED renderVars

TouchShutdown ==
    /\ touch_overlay_shutdown
    /\ UNCHANGED fingers
    /\ UNCHANGED renderVars

SetEnabled(enabled) ==
    /\ touch_overlay_set_enabled(enabled)
    /\ UNCHANGED fingers
    /\ UNCHANGED renderVars

(* the Bomb button, two points of the left half and the point in the fire zone *)
LifePoints == {Point(50, 5), Point(25, 50), Point(10, 50), Point(90, 30)}

(* fingers come down on, move to and leave the given points *)
FingerNext(points) ==
    \/ \E fid \in FingerIds, p \in points : FingerDown(fid, p)
    \/ \E fid \in FingerIds, p \in points : FingerMotion(fid, p)
    \/ \E fid \in FingerIds : FingerUp(fid)

(* The overlay is set up once and fingers touch the screen *)
NextTouch ==
    \/ (~overlay_initialized /\ \E size \in ScreenSizes : TouchInit(size))
    \/ FingerNext(TouchPoints)

SpecTouch == Init /\ [][NextTouch]_vars

(* The overlay is set up, switched off and on, and shut down, each at any
   time; it is set up again only after a shutdown *)
NextTouchLife ==
    \/ (~overlay_initialized /\ \E size \in ScreenSizes : TouchInit(size))
    \/ FingerNext(LifePoints)
    \/ \E enabled \in BOOLEAN : SetEnabled(enabled)
    \/ TouchShutdown

SpecTouchLife == Init /\ [][NextTouchLife]_vars


-----------------------------------------------------------------------------
(* Properties of the touch overlay *)

(* the scancodes a stick holds down, by its key flags *)
StickHolds(stick) ==
    {sc \in {stick.sc_left, stick.sc_right, stick.sc_up, stick.sc_down} :
        \/ (sc = stick.sc_left /\ stick.key_left)
        \/ (sc = stick.sc_right /\ stick.key_right)
        \/ (sc = stick.sc_up /\ stick.key_up)
        \/ (sc = stick.sc_down /\ stick.key_down)}

(* the scancodes the overlay holds down, by its own flags *)
OverlayHolds ==
    StickHolds(left_stick) \cup StickHolds(right_stick)
        \cup (IF right_stick.firing THEN {SDL_SCANCODE_LCTRL} ELSE {})
        \cup {button_scancodes[i] : i \in {j \in ButtonIds : buttons[j].pressed}}

RECURSIVE Alternates(_, _)
(* read after the keys in held went down, the events press only keys that are
   up and release only keys that are down *)
Alternates(held, events) ==
    IF events = <<>>
    THEN TRUE
    ELSE /\ Head(events).type = "SDL_KEYDOWN" => Head(events).scancode \notin held
         /\ Head(events).type = "SDL_KEYUP" => Head(events).scancode \in held
         /\ Alternates(KeysAfter(held, <<Head(events)>>), Tail(events))

(* the finger events SDL can deliver *)
FingerEvents ==
    {FingerEvent(type, fid, p) :
        type \in {"SDL_FINGERDOWN", "SDL_FINGERMOTION", "SDL_FINGERUP"},
        fid \in FingerIds, p \in TouchPoints}

(* C36: after touch_overlay_init, under any sequence of finger down, motion
   and up events (the overlay switched off and on and shut down in between),
   the key-down and key-up events injected for each scancode alternate,
   starting with a key-down: the keys that are down are the keys the
   overlay's flags hold, and whatever finger event comes next, the call
   presses only keys that are up and releases only keys that are down. *)
C36_KeysAlternate ==
    /\ keys = OverlayHolds
    /\ \A event \in FingerEvents : Alternates(keys, HandledEvent(event).events)
    /\ Alternates(keys, ShutdownEvents)

(* the left stick holds A while Ctrl fire is held, and lifting the left
   finger releases A alone *)
C36_Witness ==
    /\ keys = {"A", SDL_SCANCODE_LCTRL}
    /\ left_stick.active
    /\ right_stick.active
    /\ HandledEvent(FingerEvent("SDL_FINGERUP", left_stick.finger_id, Lifted)).events
            = <<KeyEvent("A", FALSE)>>


(* no finger rests on the screen *)
AllLifted == \A fid \in FingerIds : fingers[fid] = Lifted

(* C37: whenever every finger has been lifted, no injected key is still held,
   also when touch_overlay_set_enabled(false) happened while a stick was
   deflected, fire was active or a button was pressed. *)
C37_NoStuckKeys == AllLifted => keys = {}


(* the events are key-ups, one for each key of held and for no other key *)
ReleasesExactly(events, held) ==
    /\ \A k \in 1 .. Len(events) : events[k].type = "SDL_KEYUP"
    /\ {events[k].scancode : k \in 1 .. Len(events)} = held
    /\ Len(events) = Cardinality(held)

(* C38: touch_overlay_shutdown injects a key-up for every key the overlay
   holds (the directions of both sticks, Ctrl fire, each pressed button) and
   for no other key, and marks the overlay uninitialised with no key held;
   while the overlay is uninitialised every finger event is ignored
   (touch_overlay_handle_event returns 0, injects nothing and changes
   nothing) and a shutdown injects nothing. *)
C38_ShutdownReleases ==
    /\ [](overlay_initialized =>
            /\ ReleasesExactly(ShutdownEvents, OverlayHolds)
            /\ ReleasesExactly(ShutdownEvents, keys))
    /\ [][(overlay_initialized /\ ~overlay_initialized') =>
            (keys' = {} /\ OverlayHolds' = {})]_vars
    /\ [](~overlay_initialized =>
            /\ \A event \in FingerEvents : HandledEvent(event) = Ignored(0)
            /\ ~ENABLED (TouchShutdown /\ touchVars' # touchVars))

(* the overlay was shut down with both sticks in use: the sticks are still
   marked active, no key is held, and the fingers are still on the screen *)
C38_Witness ==
    /\ ~overlay_initialized
    /\ left_stick.active
    /\ right_stick.active
    /\ ~AllLifted
    /\ keys = {}


(* the fire zone as stated: 2 * fx - fy > 1.0, in hundredths *)
StatedFireZone(p) == 2 * p.x - p.y > 2 * HalfScreen

(* a key-down of Ctrl is among the events *)
PressesCtrl(events) ==
    \E k \in 1 .. Len(events) : events[k] = KeyEvent(SDL_SCANCODE_LCTRL, TRUE)

(* the finger of the right stick came down at, or moved to, a new point *)
RightFingerMovedTo(inside) ==
    \E fid \in FingerIds :
        /\ right_stick'.active
        /\ right_stick'.finger_id = fid
        /\ fingers'[fid] # Lifted
        /\ fingers'[fid] # fingers[fid]
        /\ StatedFireZone(fingers'[fid]) = inside

(* the finger of the right stick was lifted *)
RightFingerLifted ==
    /\ right_stick.active
    /\ ~right_stick'.active
    /\ fingers[right_stick.finger_id] # Lifted
    /\ fingers'[right_stick.finger_id] = Lifted

(* C39: Ctrl is held exactly when the right stick is active and the last
   reported position of its finger lies in the fire zone 2 * fx - fy > 1.0;
   it is pressed by the finger-down or motion of that finger that enters the
   zone and released by the motion that leaves it or by the finger-up; an
   event that presses Ctrl belongs to the finger of the right stick and
   leaves the left stick alone. *)
C39_FireZone ==
    /\ [](SDL_SCANCODE_LCTRL \in keys <=>
            (right_stick.active /\ StatedFireZone(fingers[right_stick.finger_id])))
    /\ [][(SDL_SCANCODE_LCTRL \notin keys /\ SDL_SCANCODE_LCTRL \in keys')
            => RightFingerMovedTo(TRUE)]_vars
    /\ [][(SDL_SCANCODE_LCTRL \in keys /\ SDL_SCANCODE_LCTRL \notin keys')
            => (RightFingerMovedTo(FALSE) \/ RightFingerLifted)]_vars
    /\ [](\A event \in FingerEvents :
            PressesCtrl(HandledEvent(event).events) =>
                /\ HandledEvent(event).right_stick.finger_id = event.fingerId
                /\ HandledEvent(event).left_stick = left_stick
                /\ SDL_SCANCODE_LCTRL \notin StickHolds(HandledEvent(event).left_stick))

(* the right stick was activated on the middle line, below the diagonal, and
   its finger has moved into the fire zone: Ctrl is held *)
C39_Witness ==
    /\ right_stick.active
    /\ right_stick.center_x = HalfScreen
    /\ fingers[right_stick.finger_id] = Point(90, 30)
    /\ SDL_SCANCODE_LCTRL \in keys
    /\ left_stick.active


(* the buttons whose rectangle holds the point *)
ButtonsAt(p) == {i \in ButtonIds : InZone(button_zone[i], p.x, p.y)}

(* finger fid coming down at p leaves stick `after` as the claim states for
   the stick `before` of the half the point lies in: activated for fid if it
   was inactive, untouched if another finger owns it *)
StickTaken(before, after, fid, p) ==
    IF before.active
    THEN after = before
    ELSE /\ after.active
         /\ after.finger_id = fid
         /\ after.center_x = p.x
         /\ after.center_y = p.y

(* finger fid coming down at p is routed as stated: to the button whose
   rectangle holds p, else to the left stick if x < 0.5, else to the right
   stick *)
Routed(fid, p) ==
    LET out == HandledEvent(FingerEvent("SDL_FINGERDOWN", fid, p))
    IN  IF ButtonsAt(p) # {}
        THEN /\ \E i \in ButtonsAt(p) :
                    /\ out.buttons[i].pressed
                    /\ \A j \in ButtonIds \ {i} : out.buttons[j] = buttons[j]
                    /\ ~buttons[i].pressed =>
                            out.events = <<KeyEvent(button_scancodes[i], TRUE)>>
             /\ out.left_stick = left_stick
             /\ out.right_stick = right_stick
        ELSE IF p.x < HalfScreen
        THEN /\ StickTaken(left_stick, out.left_stick, fid, p)
             /\ out.right_stick = right_stick
             /\ out.buttons = buttons
             /\ left_stick.active => out.events = <<>>
        ELSE /\ StickTaken(right_stick, out.right_stick, fid, p)
             /\ out.left_stick = left_stick
             /\ out.buttons = buttons
             /\ right_stick.active => out.events = <<>>

(* finger fid coming down inside the toggle button flips controls_visible and
   does nothing else *)
Toggled(fid, p) ==
    HandledEvent(FingerEvent("SDL_FINGERDOWN", fid, p))
        = Outcome(left_stick, right_stick, buttons, ~controls_visible, <<>>, 1)

(* the overlay handles events and shows its controls *)
ControlsShown == overlay_initialized /\ overlay_enabled /\ controls_visible

(* a stick that stays active keeps its finger and its centre, and it becomes
   inactive only in the step that lifts its finger *)
Owned(before, after) ==
    /\ (before.active /\ after.active) =>
            /\ after.finger_id = before.finger_id
            /\ after.center_x = before.center_x
            /\ after.center_y = before.center_y
    /\ (before.active /\ ~after.active) =>
            /\ fingers[before.finger_id] # Lifted
            /\ fingers'[before.finger_id] = Lifted

(* each active stick belongs to a finger on the screen, and the two sticks to
   two fingers *)
OwnersApart ==
    /\ left_stick.active => fingers[left_stick.finger_id] # Lifted
    /\ right_stick.active => fingers[right_stick.finger_id] # Lifted
    /\ (left_stick.active /\ right_stick.active) =>
            left_stick.finger_id # right_stick.finger_id

(* C40 as stated: on a finger-down with the controls visible, a touch inside a
   button rectangle presses that button and activates no stick; every other
   touch with x < 0.5 goes to the left stick only and every other touch with
   x >= 0.5 to the right stick only; a stick is owned by the finger that
   activated it until that finger lifts, and a further finger in the same half
   changes nothing. *)
C40_TouchRouting ==
    /\ [](ControlsShown => \A fid \in FingerIds, p \in TouchPoints : Routed(fid, p))
    /\ []OwnersApart
    /\ [][Owned(left_stick, left_stick') /\ Owned(right_stick, right_stick')]_vars

(* C40 amended: the same, for touches outside the rectangle of the toggle
   button; a touch inside it only flips controls_visible. *)
C40_TouchRoutingAmended ==
    /\ [](ControlsShown =>
            \A fid \in FingerIds, p \in TouchPoints :
                IF InZone(toggle_button, p.x, p.y) THEN Toggled(fid, p) ELSE Routed(fid, p))
    /\ []OwnersApart
    /\ [][Owned(left_stick, left_stick') /\ Owned(right_stick, right_stick')]_vars

(* finger 0 owns the left stick and finger 1 has come down in the left half
   as well: nothing else is active, no key is held *)
C40_Witness ==
    /\ ControlsShown
    /\ left_stick.active
    /\ left_stick.finger_id = 0
    /\ fingers[0] = Point(25, 50)
    /\ fingers[1] = Point(10, 50)
    /\ ~right_stick.active
    /\ \A i \in ButtonIds : ~buttons[i].pressed
    /\ keys = {}

=============================================================================
